---- MODULE Spec2Model ----
(***************************************************************************)
(* Verification model of the stroke-care backend: the stroke-risk scorer   *)
(* (three copies), the SQLite patient store behind PatientService, the     *)
(* MongoDB appointment store behind the /appointments routes, and the      *)
(* users table behind login, token verification and registration.          *)
(***************************************************************************)
EXTENDS Integers, Sequences, FiniteSets, TLC

VARIABLES
    pd,         \* patient_data dictionary handed to calculate_stroke_risk
    riskOut,    \* results of the three calculate_stroke_risk copies
    cfg,        \* Config.STROKE_RISK_THRESHOLD_HIGH / _MEDIUM
    score,      \* risk_score handed to get_risk_level
    levelOut,   \* results of the three get_risk_level copies
    patients,   \* the patients table: id -> row (PatientSQLite)
    pLast,      \* the last PatientService call and its result
    users,      \* the users table: id -> row (User)
    appts,      \* the appointments collection: id -> document
    today,      \* date.today(), as a day number
    now,        \* datetime.utcnow(), as a tick count
    aLast,      \* the last request and its response
    token,      \* the decoded JWTs the clients hold
    securityLogs,   \* the security_logs table (SecurityLog rows, in insertion order)
    reset_tokens,   \* password_reset.reset_tokens: token -> email and expiry
    threads,    \* the requests in flight: thread -> its position and its locals
    medical_history     \* the medical_history table: record id -> its row

vars == <<pd, riskOut, cfg, score, levelOut, patients, pLast, users, appts, today, now, aLast,
          token, securityLogs, reset_tokens, threads, medical_history>>

riskVars == <<pd, riskOut, cfg, score, levelOut>>
patientVars == <<patients, pLast>>
apptVars == <<users, appts, today, now, aLast>>
authVars == <<token, securityLogs, reset_tokens>>

None == "None"

\* no request is in flight
NoThreads == <<>>

(***************************************************************************)
(* Python dictionaries: functions whose DOMAIN is the set of present keys. *)
(***************************************************************************)
EmptyDict == [k \in {} |-> None]

\* dict.get(key, default)
Get(d, k, default) == IF k \in DOMAIN d THEN d[k] ELSE default

\* d.update(u): the keys of u override those of d
DictUpdate(d, u) == [k \in (DOMAIN d) \cup (DOMAIN u) |-> IF k \in DOMAIN u THEN u[k] ELSE d[k]]

Min(a, b) == IF a < b THEN a ELSE b

(***************************************************************************)
(* Config                                                                  *)
(***************************************************************************)
STROKE_RISK_THRESHOLD_HIGH == 50
STROKE_RISK_THRESHOLD_MEDIUM == 25

DefaultConfig == [high |-> STROKE_RISK_THRESHOLD_HIGH, medium |-> STROKE_RISK_THRESHOLD_MEDIUM]

(***************************************************************************)
(* calculate_stroke_risk, as written in each of its three copies           *)
(***************************************************************************)
\* PatientService.calculate_stroke_risk with the age test 'age >= 60'
Service_calculate_stroke_risk_AgeGE60(d) ==
    LET age == Get(d, "age", 0)
        a   == IF age >= 60 THEN 30 ELSE IF age > 45 THEN 15 ELSE 0
        h   == IF Get(d, "hypertension", 0) = 1 THEN 25 ELSE 0
        c   == IF Get(d, "heart_disease", 0) = 1 THEN 20 ELSE 0
        glucose_level == Get(d, "avg_glucose_level", 0)
        g   == IF glucose_level > 150 THEN 15 ELSE IF glucose_level > 120 THEN 8 ELSE 0
        bmi == Get(d, "bmi", 0)
        b   == IF bmi > 30 THEN 10 ELSE IF bmi > 25 THEN 5 ELSE 0
        smoking_status == Get(d, "smoking_status", "Unknown")
        s   == IF smoking_status = "Smokes" THEN 10
               ELSE IF smoking_status = "Formerly smoked" THEN 5 ELSE 0
        p   == IF Get(d, "stroke", 0) = 1 THEN 30 ELSE 0
    IN  Min(a + h + c + g + b + s + p, 100)

\* PatientService.calculate_stroke_risk
Service_calculate_stroke_risk(d) ==
    LET age == Get(d, "age", 0)
        a   == IF age > 60 THEN 30 ELSE IF age > 45 THEN 15 ELSE 0
        h   == IF Get(d, "hypertension", 0) = 1 THEN 25 ELSE 0
        c   == IF Get(d, "heart_disease", 0) = 1 THEN 20 ELSE 0
        glucose_level == Get(d, "avg_glucose_level", 0)
        g   == IF glucose_level > 150 THEN 15 ELSE IF glucose_level > 120 THEN 8 ELSE 0
        bmi == Get(d, "bmi", 0)
        b   == IF bmi > 30 THEN 10 ELSE IF bmi > 25 THEN 5 ELSE 0
        smoking_status == Get(d, "smoking_status", "Unknown")
        s   == IF smoking_status = "Smokes" THEN 10
               ELSE IF smoking_status = "Formerly smoked" THEN 5 ELSE 0
        p   == IF Get(d, "stroke", 0) = 1 THEN 30 ELSE 0
    IN  Min(a + h + c + g + b + s + p, 100)

\* PatientRecord.calculate_stroke_risk
Record_calculate_stroke_risk(d) ==
    LET age == Get(d, "age", 0)
        a   == IF age > 60 THEN 30 ELSE IF age > 45 THEN 15 ELSE 0
        h   == IF Get(d, "hypertension", 0) = 1 THEN 25 ELSE 0
        c   == IF Get(d, "heart_disease", 0) = 1 THEN 20 ELSE 0
        glucose_level == Get(d, "avg_glucose_level", 0)
        g   == IF glucose_level > 150 THEN 15 ELSE IF glucose_level > 120 THEN 8 ELSE 0
        bmi == Get(d, "bmi", 0)
        b   == IF bmi > 30 THEN 10 ELSE IF bmi > 25 THEN 5 ELSE 0
        smoking_status == Get(d, "smoking_status", "Unknown")
        s   == IF smoking_status = "Smokes" THEN 10
               ELSE IF smoking_status = "Formerly smoked" THEN 5 ELSE 0
        p   == IF Get(d, "stroke", 0) = 1 THEN 30 ELSE 0
    IN  Min(a + h + c + g + b + s + p, 100)

\* PatientRecordMongo.calculate_stroke_risk
Mongo_calculate_stroke_risk(d) ==
    LET age == Get(d, "age", 0)
        a   == IF age > 60 THEN 30 ELSE IF age > 45 THEN 15 ELSE 0
        h   == IF Get(d, "hypertension", 0) = 1 THEN 25 ELSE 0
        c   == IF Get(d, "heart_disease", 0) = 1 THEN 20 ELSE 0
        glucose_level == Get(d, "avg_glucose_level", 0)
        g   == IF glucose_level > 150 THEN 15 ELSE IF glucose_level > 120 THEN 8 ELSE 0
        bmi == Get(d, "bmi", 0)
        b   == IF bmi > 30 THEN 10 ELSE IF bmi > 25 THEN 5 ELSE 0
        smoking_status == Get(d, "smoking_status", "Unknown")
        s   == IF smoking_status = "Smokes" THEN 10
               ELSE IF smoking_status = "Formerly smoked" THEN 5 ELSE 0
        p   == IF Get(d, "stroke", 0) = 1 THEN 30 ELSE 0
    IN  Min(a + h + c + g + b + s + p, 100)

(***************************************************************************)
(* get_risk_level, as written in each of its three copies                  *)
(***************************************************************************)
\* PatientService.get_risk_level with the score 50 left out of both upper tiers
Service_get_risk_level_Gap(risk_score) ==
    IF risk_score > 50 THEN "high"
    ELSE IF risk_score >= 25 /\ risk_score < 50 THEN "medium"
    ELSE "low"

\* PatientService.get_risk_level: literal thresholds
Service_get_risk_level(risk_score) ==
    IF risk_score >= 50 THEN "high"
    ELSE IF risk_score >= 25 THEN "medium"
    ELSE "low"

\* PatientRecord.get_risk_level: thresholds read from Config
Record_get_risk_level(risk_score, config) ==
    IF risk_score >= config.high THEN "high"
    ELSE IF risk_score >= config.medium THEN "medium"
    ELSE "low"

\* PatientRecordMongo.get_risk_level: literal thresholds
Mongo_get_risk_level(risk_score) ==
    IF risk_score >= 50 THEN "high"
    ELSE IF risk_score >= 25 THEN "medium"
    ELSE "low"

(***************************************************************************)
(* Inputs of the scorer: every field is absent or takes a value of its     *)
(* documented domain (age 0..120, glucose 50..300, bmi 10..60), with the   *)
(* values on both sides of every threshold.                                *)
(***************************************************************************)
AgeValues == {0, 45, 46, 60, 61, 120}
FlagValues == {0, 1}
GlucoseValues == {50, 120, 121, 150, 151, 300}
BmiValues == {10, 25, 26, 30, 31, 60}
SmokingValues == {"Never smoked", "Smokes", "Formerly smoked", "Unknown"}

ScoreFields == {"age", "hypertension", "heart_disease", "avg_glucose_level", "bmi",
                "smoking_status", "stroke"}

FullInputs ==
    [age : AgeValues,
     hypertension : FlagValues,
     heart_disease : FlagValues,
     avg_glucose_level : GlucoseValues,
     bmi : BmiValues,
     smoking_status : SmokingValues,
     stroke : FlagValues]

\* the dictionary that holds the fields K of d and no other
Restrict(d, K) == [k \in K |-> d[k]]

PatientDicts == {Restrict(full, K) : full \in FullInputs, K \in SUBSET ScoreFields}

ConfigPairs == {DefaultConfig, [high |-> 60, medium |-> 30], [high |-> 40, medium |-> 20]}

Scores == 0..100

NoRisk == [done |-> FALSE, service |-> 0, record |-> 0, mongo |-> 0]
NoLevel == [done |-> FALSE, service |-> "", record |-> "", mongo |-> ""]
NoCall == [op |-> "none"]

\* the accounts create_initial_data inserts (ids 1..3) and two registered later
SeedUsers ==
    [id \in 1..5 |->
        CASE id = 1 -> [username |-> "admin", role |-> "admin"]
          [] id = 2 -> [username |-> "doctor", role |-> "doctor"]
          [] id = 3 -> [username |-> "patient", role |-> "patient"]
          [] id = 4 -> [username |-> "patient2", role |-> "patient"]
          [] id = 5 -> [username |-> "doctor2", role |-> "doctor"]]

(***************************************************************************)
(* The scorer applied to one input                                         *)
(***************************************************************************)
InitScore ==
    /\ pd \in PatientDicts
    /\ riskOut = NoRisk
    /\ cfg = DefaultConfig
    /\ score = 0
    /\ levelOut = NoLevel
    /\ patients = EmptyDict
    /\ pLast = NoCall
    /\ users = SeedUsers
    /\ appts = EmptyDict
    /\ today = 1
    /\ now = 0
    /\ aLast = NoCall
    /\ token = {}
    /\ securityLogs = <<>>
    /\ reset_tokens = EmptyDict
    /\ threads = NoThreads
    /\ medical_history = EmptyDict

CalcRisk ==
    /\ ~riskOut.done
    /\ riskOut' = [done |-> TRUE,
                   service |-> Service_calculate_stroke_risk(pd),
                   record |-> Record_calculate_stroke_risk(pd),
                   mongo |-> Mongo_calculate_stroke_risk(pd)]
    /\ UNCHANGED <<authVars, pd, cfg, score, levelOut, patientVars, apptVars, threads, medical_history>>

NextScore == CalcRisk

SpecScore == InitScore /\ [][NextScore]_vars

(***************************************************************************)
(* The classifier applied to one score under one configuration             *)
(***************************************************************************)
InitClassify ==
    /\ pd = EmptyDict
    /\ riskOut = NoRisk
    /\ cfg \in ConfigPairs
    /\ score \in Scores
    /\ levelOut = NoLevel
    /\ patients = EmptyDict
    /\ pLast = NoCall
    /\ users = SeedUsers
    /\ appts = EmptyDict
    /\ today = 1
    /\ now = 0
    /\ aLast = NoCall
    /\ token = {}
    /\ securityLogs = <<>>
    /\ reset_tokens = EmptyDict
    /\ threads = NoThreads
    /\ medical_history = EmptyDict

Classify ==
    /\ ~levelOut.done
    /\ levelOut' = [done |-> TRUE,
                    service |-> Service_get_risk_level(score),
                    record |-> Record_get_risk_level(score, cfg),
                    mongo |-> Mongo_get_risk_level(score)]
    /\ UNCHANGED <<authVars, pd, riskOut, cfg, score, patientVars, apptVars, threads, medical_history>>

NextClassify == Classify

SpecClassify == InitClassify /\ [][NextClassify]_vars

(***************************************************************************)
(* C3: for every input of the documented domain, with any field absent,    *)
(* calculate_stroke_risk returns an integer in 0..100 equal to             *)
(* min(100, age term + 25*hypertension + 20*heart_disease + glucose term + *)
(* bmi term + smoking term + 30*stroke) with the documented step tables,   *)
(* and the three copies return the same value.                             *)
(***************************************************************************)
DocAgeTerm(d) ==
    IF "age" \notin DOMAIN d THEN 0
    ELSE IF d["age"] > 60 THEN 30
    ELSE IF 45 < d["age"] /\ d["age"] <= 60 THEN 15
    ELSE 0

DocGlucoseTerm(d) ==
    IF "avg_glucose_level" \notin DOMAIN d THEN 0
    ELSE IF d["avg_glucose_level"] > 150 THEN 15
    ELSE IF 120 < d["avg_glucose_level"] /\ d["avg_glucose_level"] <= 150 THEN 8
    ELSE 0

DocBmiTerm(d) ==
    IF "bmi" \notin DOMAIN d THEN 0
    ELSE IF d["bmi"] > 30 THEN 10
    ELSE IF 25 < d["bmi"] /\ d["bmi"] <= 30 THEN 5
    ELSE 0

DocSmokingTerm(d) ==
    IF "smoking_status" \notin DOMAIN d THEN 0
    ELSE CASE d["smoking_status"] = "Smokes" -> 10
           [] d["smoking_status"] = "Formerly smoked" -> 5
           [] OTHER -> 0

DocFlag(d, k) == IF k \in DOMAIN d THEN d[k] ELSE 0

DocScore(d) ==
    LET sum == DocAgeTerm(d) + 25 * DocFlag(d, "hypertension") + 20 * DocFlag(d, "heart_disease")
               + DocGlucoseTerm(d) + DocBmiTerm(d) + DocSmokingTerm(d) + 30 * DocFlag(d, "stroke")
    IN  IF sum > 100 THEN 100 ELSE sum

C3_ScoreMatchesTable ==
    riskOut.done =>
        /\ riskOut.service \in 0..100
        /\ riskOut.service = DocScore(pd)
        /\ riskOut.record = riskOut.service
        /\ riskOut.mongo = riskOut.service
        /\ (DOMAIN pd = {"age"} /\ pd["age"] = 45) => riskOut.service = 0
        /\ (DOMAIN pd = {"age"} /\ pd["age"] = 60) => riskOut.service = 15
        /\ (DOMAIN pd = {"avg_glucose_level"} /\ pd["avg_glucose_level"] = 120) => riskOut.service = 0
        /\ (DOMAIN pd = {"avg_glucose_level"} /\ pd["avg_glucose_level"] = 150) => riskOut.service = 8
        /\ (DOMAIN pd = {"bmi"} /\ pd["bmi"] = 25) => riskOut.service = 0
        /\ (DOMAIN pd = {"bmi"} /\ pd["bmi"] = 30) => riskOut.service = 5

\* the scorer has run on age 60, glucose 150, bmi 30 and nothing else
C3_Witness ==
    /\ riskOut.done
    /\ DOMAIN pd = {"age", "avg_glucose_level", "bmi"}
    /\ pd["age"] = 60 /\ pd["avg_glucose_level"] = 150 /\ pd["bmi"] = 30
    /\ riskOut.service = 28

(***************************************************************************)
(* C4: for every score in 0..100 and every configured threshold pair, each *)
(* get_risk_level implementation returns high when score >= HIGH, medium   *)
(* when MEDIUM <= score < HIGH and low otherwise.                          *)
(***************************************************************************)
ConfiguredLevel(s, config) ==
    CASE s >= config.high -> "high"
      [] s >= config.medium /\ s < config.high -> "medium"
      [] OTHER -> "low"

C4_ClassifyConsultsConfig ==
    levelOut.done =>
        /\ levelOut.service = ConfiguredLevel(score, cfg)
        /\ levelOut.record = ConfiguredLevel(score, cfg)
        /\ levelOut.mongo = ConfiguredLevel(score, cfg)

(***************************************************************************)
(* PatientService on SQLite (PatientRecordMongo.is_connected() is always   *)
(* False, so use_mongodb is False and every call takes the SQLite helper). *)
(* A row of the patients table is a record of its columns.                 *)
(***************************************************************************)
MaxPatients == 1

RiskTriggerFields == {"age", "hypertension", "heart_disease", "avg_glucose_level", "bmi",
                      "smoking_status"}

\* PatientSQLite.to_dict
to_dict(id, row) == [k \in (DOMAIN row) \cup {"id"} |-> IF k = "id" THEN id ELSE row[k]]

\* hasattr(patient, key) for the keys the model patches with
hasattr(row, key) == key \in DOMAIN row

\* the rowid SQLite gives to an INTEGER PRIMARY KEY on insert: largest rowid + 1
NewPatientId ==
    IF DOMAIN patients = {} THEN 1
    ELSE (CHOOSE m \in DOMAIN patients : \A i \in DOMAIN patients : i <= m) + 1

\* the row _create_patient_sqlite inserts
NewPatientRow(patient_data) ==
    LET stroke_risk == Service_calculate_stroke_risk(patient_data)
        risk_level == Service_get_risk_level(stroke_risk)
    IN  [gender |-> patient_data["gender"],
         age |-> patient_data["age"],
         hypertension |-> patient_data["hypertension"],
         heart_disease |-> patient_data["heart_disease"],
         ever_married |-> patient_data["ever_married"],
         work_type |-> patient_data["work_type"],
         Residence_type |-> patient_data["Residence_type"],
         avg_glucose_level |-> patient_data["avg_glucose_level"],
         bmi |-> patient_data["bmi"],
         smoking_status |-> patient_data["smoking_status"],
         stroke |-> patient_data["stroke"],
         stroke_risk |-> stroke_risk,
         risk_level |-> risk_level,
         created_by |-> Get(patient_data, "created_by", None),
         assigned_doctor_id |-> Get(patient_data, "assigned_doctor_id", None)]

\* the setattr loop of _update_patient_sqlite
ApplyPatch(row, update_data) ==
    [k \in DOMAIN row |-> IF k \in DOMAIN update_data /\ hasattr(row, k) THEN update_data[k] ELSE row[k]]

\* _update_patient_sqlite recomputing the risk from the patch alone
UpdatedRow_PatchOnly(id, row, update_data) ==
    LET patient == ApplyPatch(row, update_data)
    IN  IF \E field \in RiskTriggerFields : field \in DOMAIN update_data
        THEN LET stroke_risk == Service_calculate_stroke_risk(update_data)
             IN  [patient EXCEPT !["stroke_risk"] = stroke_risk,
                                 !["risk_level"] = Service_get_risk_level(stroke_risk)]
        ELSE patient

\* the row _update_patient_sqlite commits for an existing patient
UpdatedRow(id, row, update_data) ==
    LET patient == ApplyPatch(row, update_data)
    IN  IF \E field \in RiskTriggerFields : field \in DOMAIN update_data
        THEN LET patient_data == DictUpdate(to_dict(id, patient), update_data)
                 stroke_risk == Service_calculate_stroke_risk(patient_data)
             IN  [patient EXCEPT !["stroke_risk"] = stroke_risk,
                                 !["risk_level"] = Service_get_risk_level(stroke_risk)]
        ELSE patient

(***************************************************************************)
(* Inputs of the store operations                                          *)
(***************************************************************************)
BasePatient ==
    [gender |-> "Male", age |-> 45, hypertension |-> 0, heart_disease |-> 0,
     ever_married |-> "Yes", work_type |-> "Private", Residence_type |-> "Urban",
     avg_glucose_level |-> 95, bmi |-> 26, smoking_status |-> "Never smoked", stroke |-> 0,
     created_by |-> 1, assigned_doctor_id |-> 2]

CreateInputs ==
    {BasePatient,
     \* a caller that supplies the derived fields: they are not read
     DictUpdate(BasePatient, [stroke_risk |-> 99, risk_level |-> "high"])}

Patches ==
    {[age |-> 61],
     [bmi |-> 31],
     [stroke |-> 1],
     [hypertension |-> 0, heart_disease |-> 0, avg_glucose_level |-> 95,
      smoking_status |-> "Never smoked"],
     [name |-> "Test Patient"],
     [stroke_risk |-> 99],
     [risk_level |-> "high"],
     [age |-> 45, stroke_risk |-> 0, risk_level |-> "low"]}

PatientIds == 1..(MaxPatients + 1)

(***************************************************************************)
(* PatientService.create_patient / update_patient / delete_patient         *)
(***************************************************************************)
InitPatients ==
    /\ pd = EmptyDict
    /\ riskOut = NoRisk
    /\ cfg = DefaultConfig
    /\ score = 0
    /\ levelOut = NoLevel
    /\ patients = EmptyDict
    /\ pLast = NoCall
    /\ users = SeedUsers
    /\ appts = EmptyDict
    /\ today = 1
    /\ now = 0
    /\ aLast = NoCall
    /\ token = {}
    /\ securityLogs = <<>>
    /\ reset_tokens = EmptyDict
    /\ threads = NoThreads
    /\ medical_history = EmptyDict

CreatePatient ==
    \E patient_data \in CreateInputs :
        /\ Cardinality(DOMAIN patients) < MaxPatients
        /\ LET id == NewPatientId
           IN  /\ patients' = [i \in (DOMAIN patients) \cup {id} |->
                                  IF i = id THEN NewPatientRow(patient_data) ELSE patients[i]]
               /\ pLast' = [op |-> "create", id |-> id, arg |-> patient_data, ok |-> TRUE]
        /\ UNCHANGED <<authVars, riskVars, apptVars, threads, medical_history>>

\* the lookup of _update_patient_sqlite and _delete_patient_sqlite, were it to
\* find a row under every id
patient_found_Always(ps, patient_id) == TRUE

\* patient = PatientSQLite.query.get(patient_id); if not patient: return False
patient_found(ps, patient_id) == patient_id \in DOMAIN ps

UpdatePatient ==
    \E patient_id \in PatientIds, update_data \in Patches :
        /\ IF ~patient_found(patients, patient_id)
           THEN /\ patients' = patients
                /\ pLast' = [op |-> "update", id |-> patient_id, arg |-> update_data, ok |-> FALSE]
           ELSE /\ patients' = [patients EXCEPT ![patient_id] =
                                    UpdatedRow(patient_id, patients[patient_id], update_data)]
                /\ pLast' = [op |-> "update", id |-> patient_id, arg |-> update_data, ok |-> TRUE]
        /\ UNCHANGED <<authVars, riskVars, apptVars, threads, medical_history>>

DeletePatient ==
    \E patient_id \in PatientIds :
        /\ IF ~patient_found(patients, patient_id)
           THEN /\ patients' = patients
                /\ pLast' = [op |-> "delete", id |-> patient_id, arg |-> EmptyDict, ok |-> FALSE]
           ELSE /\ patients' = [i \in (DOMAIN patients) \ {patient_id} |-> patients[i]]
                /\ pLast' = [op |-> "delete", id |-> patient_id, arg |-> EmptyDict, ok |-> TRUE]
        /\ UNCHANGED <<authVars, riskVars, apptVars, threads, medical_history>>

NextPatients == CreatePatient \/ UpdatePatient \/ DeletePatient

SpecPatients == InitPatients /\ [][NextPatients]_vars

(***************************************************************************)
(* C1: after any sequence of create, update and delete calls, with any     *)
(* patch dictionary, every stored row has risk_level equal to the          *)
(* classification of its stroke_risk (high >= 50, medium >= 25, else low). *)
(***************************************************************************)
DocLevel(s) ==
    CASE s >= 50 -> "high"
      [] s >= 25 /\ s < 50 -> "medium"
      [] OTHER -> "low"

C1_RiskLevelMatchesRisk ==
    \A id \in DOMAIN patients : patients[id].risk_level = DocLevel(patients[id].stroke_risk)

(***************************************************************************)
(* C2: after any sequence of create and update calls, every stored row's   *)
(* stroke_risk equals the documented score of the row's current medical    *)
(* fields (age, hypertension, heart_disease, avg_glucose_level, bmi,       *)
(* smoking_status, stroke).                                                *)
(***************************************************************************)
C2_RiskMatchesFields ==
    \A id \in DOMAIN patients :
        patients[id].stroke_risk = DocScore(Restrict(patients[id], ScoreFields))

(***************************************************************************)
(* C5: an update of an existing patient whose patch holds at least one of  *)
(* age, hypertension, heart_disease, avg_glucose_level, bmi and            *)
(* smoking_status leaves stroke_risk equal to the score of the merged      *)
(* record (the previous fields overridden by the patch) and risk_level     *)
(* equal to the classification of that value.                              *)
(***************************************************************************)
Merged(row, patch) ==
    [k \in ScoreFields |-> IF k \in DOMAIN patch THEN patch[k] ELSE row[k]]

C5_UpdateStep ==
    (/\ pLast'.op = "update"
     /\ pLast'.ok
     /\ (DOMAIN pLast'.arg) \cap RiskTriggerFields # {})
    => LET id == pLast'.id
       IN  /\ patients'[id].stroke_risk = DocScore(Merged(patients[id], pLast'.arg))
           /\ patients'[id].risk_level = DocLevel(patients'[id].stroke_risk)

C5_UpdateRecomputesFromMerged == [][C5_UpdateStep]_vars

\* a one-field patch has been applied to a row whose other fields score > 0:
\* the stored risk is more than the patch alone would give
C5_Witness ==
    /\ pLast.op = "update"
    /\ pLast.ok
    /\ DOMAIN pLast.arg = {"bmi"}
    /\ patients[pLast.id].age = 61
    /\ patients[pLast.id].stroke_risk > DocScore(pLast.arg)

(***************************************************************************)
(* Appointments: the /appointments routes over AppointmentMongoDB.         *)
(* A document of the appointments collection is a record of its fields;    *)
(* ObjectIds are numbered in insertion order and never reused.             *)
(***************************************************************************)
MaxAppts == 1
MaxDay == 2
MaxClock == 1

\* str(id) of a user id
str(id) == ToString(id)

\* the YYYY-MM-DD string of day number d
DateString(d) == "2026-01-0" \o ToString(d)

\* datetime.strptime(s, '%Y-%m-%d').date(): ok = FALSE stands for ValueError
ParseDate(s) ==
    IF \E d \in 1..9 : DateString(d) = s
    THEN [ok |-> TRUE, day |-> CHOOSE d \in 1..9 : DateString(d) = s]
    ELSE [ok |-> FALSE, day |-> 0]

\* datetime.strptime(s, '%H:%M').time() succeeds
ParseTimeOk(s) == s \in {"10:00", "11:30"}

\* sanitize_input on the strings the model submits: '<' and '>' are removed
sanitize_input(input_string) ==
    CASE input_string = "<Checkup>" -> "Checkup"
      [] input_string = "<patient>" -> "patient"
      [] OTHER -> input_string

\* not data.get(field)
Missing(data, field) ==
    \/ field \notin DOMAIN data
    \/ IF field = "doctor_id" THEN data[field] = 0 ELSE data[field] = ""

\* appointment_date < date.today() in book_appointment, with <= in place of <
BookDateIsPast_Inclusive(appointment_date, date_today) == appointment_date <= date_today

\* appointment_date < date.today() in book_appointment
BookDateIsPast(appointment_date, date_today) == appointment_date < date_today

\* appointment_date < date.today() in reschedule_appointment
RescheduleDateIsPast(appointment_date, date_today) == appointment_date < date_today

\* AppointmentMongoDB.create_appointment: the inserted document
create_appointment(patient_id, doctor_id, appointment_date, appointment_time, reason, urgency, status, notes) ==
    [patient_id |-> str(patient_id),
     doctor_id |-> str(doctor_id),
     appointment_date |-> appointment_date,
     appointment_time |-> appointment_time,
     reason |-> reason,
     urgency |-> urgency,
     status |-> status,
     notes |-> notes,
     created_at |-> now,
     updated_at |-> now]

\* AppointmentMongoDB.update_appointment: the document after $set
update_appointment(doc, update_data) ==
    DictUpdate(doc, DictUpdate(update_data, [updated_at |-> now]))

\* result.modified_count > 0
Modified(doc, update_data) == update_appointment(doc, update_data) # doc

\* the update_data of cancel_appointment
CancelData == [status |-> "cancelled"]

\* the update_data of complete_appointment
CompleteData(notes) ==
    IF notes # None THEN [status |-> "completed", notes |-> notes] ELSE [status |-> "completed"]

\* the update_data of reschedule_appointment, also resetting the status
RescheduleData_ResetStatus(data) ==
    [appointment_date |-> data["appointment_date"],
     appointment_time |-> data["appointment_time"],
     status |-> "scheduled"]

\* the update_data of reschedule_appointment
RescheduleData(data) ==
    [appointment_date |-> data["appointment_date"],
     appointment_time |-> data["appointment_time"]]

\* the permission check of the cancel and reschedule routes, without the doctor test
AccessDenied_PatientOnly(user_id, appointment) ==
    users[user_id].role = "patient" /\ appointment.patient_id # str(user_id)

\* the permission check of the cancel and reschedule routes
AccessDenied(user_id, appointment) ==
    \/ users[user_id].role = "patient" /\ appointment.patient_id # str(user_id)
    \/ users[user_id].role = "doctor" /\ appointment.doctor_id # str(user_id)

\* the status cancel_appointment (route) answers with, were it to report the store's result
CancelStatus_FromStore(success) == IF success THEN 200 ELSE 500

\* the status cancel_appointment (route) answers with after the store call
CancelStatus(success) == 200

\* get_patient_appointments / get_doctor_appointments / get_all_appointments by role
get_appointments(user_id) ==
    IF users[user_id].role = "patient"
    THEN {id \in DOMAIN appts : appts[id].patient_id = str(user_id)}
    ELSE IF users[user_id].role = "doctor"
    THEN {id \in DOMAIN appts : appts[id].doctor_id = str(user_id)}
    ELSE DOMAIN appts

(***************************************************************************)
(* Requests                                                                *)
(***************************************************************************)
ApptIds == 1..MaxAppts

BookRequest(doctor_id, day) ==
    [doctor_id |-> doctor_id, appointment_date |-> DateString(day),
     appointment_time |-> "10:00", reason |-> "Checkup"]

\* who books with whom: patient 3 with doctor 2, patient 4 with doctor 5
Bookings == {<<3, 2>>, <<4, 5>>}

BookRequests(doctor_id) ==
    {BookRequest(doctor_id, day) : day \in 1..MaxDay}
    \cup {[BookRequest(doctor_id, MaxDay) EXCEPT !.reason = "<Checkup>"],
          [BookRequest(doctor_id, MaxDay) EXCEPT !.appointment_date = "01/02/2026"],
          [doctor_id |-> doctor_id, appointment_date |-> DateString(1),
           appointment_time |-> "10:00"]}

RescheduleRequests ==
    {[appointment_date |-> DateString(day), appointment_time |-> "11:30"] : day \in 1..MaxDay}
    \cup {[appointment_date |-> DateString(MaxDay), appointment_time |-> "9am"],
          [appointment_date |-> DateString(MaxDay)]}

Response(op, caller, id, req, code, msg) ==
    [op |-> op, caller |-> caller, id |-> id, req |-> req, code |-> code, msg |-> msg]

(***************************************************************************)
(* The routes                                                              *)
(***************************************************************************)
InitAppts ==
    /\ pd = EmptyDict
    /\ riskOut = NoRisk
    /\ cfg = DefaultConfig
    /\ score = 0
    /\ levelOut = NoLevel
    /\ patients = EmptyDict
    /\ pLast = NoCall
    /\ users = SeedUsers
    /\ appts = EmptyDict
    /\ today = 1
    /\ now = 0
    /\ aLast = NoCall
    /\ token = {}
    /\ securityLogs = <<>>
    /\ reset_tokens = EmptyDict
    /\ threads = NoThreads
    /\ medical_history = EmptyDict

\* POST /appointments/book
BookAppointment ==
    \E b \in Bookings : \E data \in BookRequests(b[2]) :
        LET current_user == b[1]
            id == Cardinality(DOMAIN appts) + 1
            reject(msg) ==
                /\ appts' = appts
                /\ aLast' = Response("book", current_user, 0, data, 400, msg)
        IN  /\ IF \E field \in {"doctor_id", "appointment_date", "appointment_time", "reason"} :
                     Missing(data, field)
               THEN reject("field is required")
               ELSE IF ~ParseDate(data["appointment_date"]).ok
                       \/ ~ParseTimeOk(data["appointment_time"])
               THEN reject("Invalid date or time format")
               ELSE IF BookDateIsPast(ParseDate(data["appointment_date"]).day, today)
               THEN reject("Cannot book appointments in the past")
               ELSE /\ Cardinality(DOMAIN appts) < MaxAppts
                    /\ appts' = [i \in (DOMAIN appts) \cup {id} |->
                                    IF i = id
                                    THEN create_appointment(current_user, data["doctor_id"],
                                             data["appointment_date"], data["appointment_time"],
                                             sanitize_input(data["reason"]),
                                             Get(data, "urgency", "routine"), "scheduled", None)
                                    ELSE appts[i]]
                    /\ aLast' = Response("book", current_user, id, data, 201,
                                         "Appointment booked successfully")
            /\ UNCHANGED <<authVars, riskVars, patientVars, users, today, now, threads, medical_history>>

\* GET /appointments/
GetAppointments ==
    \E current_user \in DOMAIN users :
        /\ aLast' = Response("list", current_user, 0, get_appointments(current_user), 200, "")
        /\ UNCHANGED <<authVars, riskVars, patientVars, users, appts, today, now, threads, medical_history>>

\* POST /appointments/<id>/cancel
CancelAppointment ==
    \E current_user \in DOMAIN users, appointment_id \in ApptIds :
        /\ IF appointment_id \notin DOMAIN appts
           THEN /\ appts' = appts
                /\ aLast' = Response("cancel", current_user, appointment_id, EmptyDict, 404,
                                     "Appointment not found")
           ELSE IF AccessDenied(current_user, appts[appointment_id])
           THEN /\ appts' = appts
                /\ aLast' = Response("cancel", current_user, appointment_id, EmptyDict, 403,
                                     "Access denied")
           ELSE LET success == Modified(appts[appointment_id], CancelData)
                IN  /\ appts' = [appts EXCEPT ![appointment_id] =
                                     update_appointment(@, CancelData)]
                    /\ aLast' = DictUpdate(
                                    Response("cancel", current_user, appointment_id, EmptyDict,
                                             CancelStatus(success),
                                             "Appointment cancelled successfully"),
                                    [success |-> success])
        /\ UNCHANGED <<authVars, riskVars, patientVars, users, today, now, threads, medical_history>>

\* POST /appointments/<id>/reschedule
RescheduleAppointment ==
    \E current_user \in DOMAIN users, appointment_id \in ApptIds, data \in RescheduleRequests :
        LET answer(code, msg) ==
                /\ appts' = appts
                /\ aLast' = Response("reschedule", current_user, appointment_id, data, code, msg)
        IN  /\ IF Missing(data, "appointment_date") \/ Missing(data, "appointment_time")
               THEN answer(400, "New date and time are required")
               ELSE IF ~ParseDate(data["appointment_date"]).ok
                       \/ ~ParseTimeOk(data["appointment_time"])
               THEN answer(400, "Invalid date or time format")
               ELSE IF RescheduleDateIsPast(ParseDate(data["appointment_date"]).day, today)
               THEN answer(400, "Cannot reschedule to a past date")
               ELSE IF appointment_id \notin DOMAIN appts
               THEN answer(404, "Appointment not found")
               ELSE IF AccessDenied(current_user, appts[appointment_id])
               THEN answer(403, "Access denied")
               ELSE IF Modified(appts[appointment_id], RescheduleData(data))
               THEN /\ appts' = [appts EXCEPT ![appointment_id] =
                                    update_appointment(@, RescheduleData(data))]
                    /\ aLast' = Response("reschedule", current_user, appointment_id, data, 200,
                                         "Appointment rescheduled successfully")
               ELSE answer(500, "Failed to reschedule appointment")
            /\ UNCHANGED <<authVars, riskVars, patientVars, users, today, now, threads, medical_history>>

\* AppointmentMongoDB.complete_appointment (no route calls it; caller 0 is the service)
CompleteAppointment ==
    \E appointment_id \in ApptIds, notes \in {None, "Reviewed"} :
        /\ IF appointment_id \notin DOMAIN appts
           THEN /\ appts' = appts
                /\ aLast' = Response("complete", 0, appointment_id, EmptyDict, 0, "False")
           ELSE /\ appts' = [appts EXCEPT ![appointment_id] =
                                update_appointment(@, CompleteData(notes))]
                /\ aLast' = Response("complete", 0, appointment_id, EmptyDict, 0,
                                     IF Modified(appts[appointment_id], CompleteData(notes))
                                     THEN "True" ELSE "False")
        /\ UNCHANGED <<authVars, riskVars, patientVars, users, today, now, threads, medical_history>>

\* time passes within the day
Tick ==
    /\ now < MaxClock
    /\ now' = now + 1
    /\ UNCHANGED <<authVars, riskVars, patientVars, users, appts, today, aLast, threads, medical_history>>

\* midnight passes
NextDay ==
    /\ now < MaxClock
    /\ today < MaxDay
    /\ now' = now + 1
    /\ today' = today + 1
    /\ UNCHANGED <<authVars, riskVars, patientVars, users, appts, aLast, threads, medical_history>>

NextAppts ==
    \/ BookAppointment
    \/ GetAppointments
    \/ CancelAppointment
    \/ RescheduleAppointment
    \/ CompleteAppointment
    \/ Tick
    \/ NextDay

SpecAppts == InitAppts /\ [][NextAppts]_vars

\* a step of the route or store operation op (time does not pass during it)
RequestStep(op) == now' = now /\ aLast'.op = op

(***************************************************************************)
(* C6: over any sequence of book, reschedule, cancel and complete          *)
(* operations an appointment's status changes only from scheduled to       *)
(* completed or from scheduled to cancelled: once completed or cancelled,  *)
(* no operation moves it to a different status.                            *)
(***************************************************************************)
C6_StatusStep ==
    \A id \in DOMAIN appts :
        appts'[id].status # appts[id].status
            => /\ appts[id].status = "scheduled"
               /\ appts'[id].status \in {"completed", "cancelled"}

C6_StatusOnlyLeavesScheduled == [][C6_StatusStep]_vars

(***************************************************************************)
(* C7: cancel is idempotent: cancelling an existing appointment and        *)
(* cancelling it again both report success, and the second cancel leaves   *)
(* the appointment exactly as the first left it (status cancelled, every   *)
(* other field as before).                                                 *)
(***************************************************************************)
\* a cancel request by a caller the permission check lets through
PermittedCancel ==
    /\ RequestStep("cancel")
    /\ aLast'.id \in DOMAIN appts
    /\ ~AccessDenied(aLast'.caller, appts[aLast'.id])

C7_CancelStep_Original ==
    PermittedCancel =>
        /\ aLast'.code = 200
        /\ appts'[aLast'.id].status = "cancelled"
        /\ appts[aLast'.id].status = "cancelled" => appts'[aLast'.id] = appts[aLast'.id]

C7_CancelStep ==
    PermittedCancel =>
        LET before == appts[aLast'.id]
            after == appts'[aLast'.id]
        IN  /\ aLast'.code = 200
            /\ after.status = "cancelled"
            /\ after.updated_at = now
            /\ \A k \in (DOMAIN before) \ {"status", "updated_at"} : after[k] = before[k]
            /\ DOMAIN after = DOMAIN before
            /\ \A other \in (DOMAIN appts) \ {aLast'.id} : appts'[other] = appts[other]

WellFormedBooking(data) ==
    /\ \A field \in {"doctor_id", "appointment_date", "appointment_time", "reason"} :
          ~Missing(data, field)
    /\ \E d \in 1..MaxDay : data["appointment_date"] = DateString(d)
    /\ data["appointment_time"] \in {"10:00", "11:30"}

DayOf(date_string) == CHOOSE d \in 1..MaxDay : DateString(d) = date_string

C8_BookStep ==
    (RequestStep("book") /\ WellFormedBooking(aLast'.req)) =>
        IF DayOf(aLast'.req["appointment_date"]) < today
        THEN /\ aLast'.code = 400
             /\ aLast'.msg = "Cannot book appointments in the past"
             /\ appts' = appts
        ELSE /\ aLast'.code = 201
             /\ Cardinality(DOMAIN appts') = Cardinality(DOMAIN appts) + 1
             /\ \A id \in DOMAIN appts : id \in DOMAIN appts' /\ appts'[id] = appts[id]
             /\ \A id \in (DOMAIN appts') \ (DOMAIN appts) :
                   /\ appts'[id].status = "scheduled"
                   /\ appts'[id].appointment_date = aLast'.req["appointment_date"]
                   /\ appts'[id].patient_id = ToString(aLast'.caller)

C8_BookRejectsPastDates == [][C8_BookStep]_vars

\* an appointment dated today is stored, and a booking for yesterday was just refused
C8_Witness ==
    /\ today > 1
    /\ \E id \in DOMAIN appts :
          /\ appts[id].appointment_date = DateString(today)
          /\ appts[id].created_at = now
    /\ aLast.op = "book"
    /\ aLast.code = 400
    /\ aLast.msg = "Cannot book appointments in the past"
    /\ aLast.req["appointment_date"] = DateString(today - 1)

(***************************************************************************)
(* C9: a reschedule whose new date is strictly before today is rejected    *)
(* and leaves the appointment unchanged; a successful reschedule changes   *)
(* only appointment_date, appointment_time and updated_at.                 *)
(***************************************************************************)
C9_RescheduleStep ==
    RequestStep("reschedule") =>
        /\ (/\ ~Missing(aLast'.req, "appointment_date")
            /\ \E d \in 1..MaxDay : /\ aLast'.req["appointment_date"] = DateString(d)
                                    /\ d < today)
           => (aLast'.code = 400 /\ appts' = appts)
        /\ aLast'.code = 200 =>
              LET before == appts[aLast'.id]
                  after == appts'[aLast'.id]
              IN  /\ after.appointment_date = aLast'.req["appointment_date"]
                  /\ after.appointment_time = aLast'.req["appointment_time"]
                  /\ \A k \in {"patient_id", "doctor_id", "reason", "urgency", "status",
                               "notes", "created_at"} : after[k] = before[k]
                  /\ DOMAIN after = DOMAIN before
                  /\ \A other \in (DOMAIN appts) \ {aLast'.id} : appts'[other] = appts[other]
        /\ aLast'.code # 200 => appts' = appts

C9_RescheduleFrame == [][C9_RescheduleStep]_vars

\* a cancelled appointment has been moved to another date and time: its status is kept
C9_Witness ==
    /\ aLast.op = "reschedule"
    /\ aLast.code = 200
    /\ appts[aLast.id].status = "cancelled"
    /\ appts[aLast.id].appointment_time = "11:30"
    /\ appts[aLast.id].appointment_date = aLast.req["appointment_date"]

(***************************************************************************)
(* C10: a patient can cancel or reschedule an appointment, and sees it in  *)
(* the list, only if its patient_id is the caller's id; a doctor only if   *)
(* its doctor_id is the caller's id; an admin is unrestricted.  A cancel   *)
(* or reschedule refused by this check answers 403 and changes nothing.    *)
(***************************************************************************)
Owns(user_id, appointment) ==
    CASE users[user_id].role = "patient" -> appointment.patient_id = ToString(user_id)
      [] users[user_id].role = "doctor" -> appointment.doctor_id = ToString(user_id)
      [] OTHER -> TRUE

\* the request passes the checks the route makes before it looks the appointment up
PassesValidation(op, req) ==
    op = "reschedule" =>
        /\ ~Missing(req, "appointment_date") /\ ~Missing(req, "appointment_time")
        /\ req["appointment_time"] \in {"10:00", "11:30"}
        /\ \E d \in 1..MaxDay : req["appointment_date"] = DateString(d) /\ d >= today

C10_AccessStep ==
    /\ \A op \in {"cancel", "reschedule"} :
          (RequestStep(op) /\ aLast'.id \in DOMAIN appts) =>
              IF Owns(aLast'.caller, appts[aLast'.id])
              THEN aLast'.code # 403
              ELSE /\ appts' = appts
                   /\ aLast'.code # 200
                   /\ PassesValidation(op, aLast'.req) => aLast'.code = 403
    /\ RequestStep("list") =>
          /\ \A id \in aLast'.req : id \in DOMAIN appts /\ Owns(aLast'.caller, appts[id])
          /\ users[aLast'.caller].role = "admin" => aLast'.req = DOMAIN appts

C10_OwnerOnlyAccess == [][C10_AccessStep]_vars

\* a doctor who is not the appointment's doctor has been refused a cancel
C10_Witness ==
    /\ aLast.op = "cancel"
    /\ aLast.code = 403
    /\ users[aLast.caller].role = "doctor"
    /\ aLast.id \in DOMAIN appts
    /\ appts[aLast.id].doctor_id # ToString(aLast.caller)
    /\ appts[aLast.id].status = "scheduled"

(***************************************************************************)
(* The users table, login and token verification                           *)
(*                                                                         *)
(* A users row is [username, email, password_hash, role, is_active,        *)
(* last_login]; last_login is the empty set (NULL) or {time}.  The client  *)
(* holds at most one token: the payload generate_auth_token signed, with a *)
(* note of whether the client has called logout with it.  Time is          *)
(* datetime.utcnow() in seconds and advances in steps of half a token      *)
(* lifetime.  SQLite numbers a new row max(id) + 1, so the id of a deleted *)
(* last row is given to the next row created.                              *)
(***************************************************************************)
MaxTicks == 3
MaxUsers == 4

\* the default expires_in of generate_auth_token, in seconds
expires_in == 86400

TickSeconds == expires_in \div 2

\* bcrypt.generate_password_hash(password)
set_password(password) == "$2b$12$" \o password

\* bcrypt.check_password_hash(self.password_hash, password)
check_password(user, password) == user.password_hash = set_password(password)

\* a freshly inserted users row
UserRow(username, email, password, role) ==
    [username |-> username, email |-> email, password_hash |-> set_password(password),
     role |-> role, is_active |-> TRUE, last_login |-> {}]

\* the accounts create_initial_data inserts
InitialUsers ==
    [id \in 1..3 |->
        CASE id = 1 -> UserRow("admin", "admin@strokecare.com", "admin123", "admin")
          [] id = 2 -> UserRow("doctor", "doctor@strokecare.com", "doctor123", "doctor")
          [] id = 3 -> UserRow("patient", "patient@strokecare.com", "patient123", "patient")]

\* UserOperations.find_by_username / find_by_email / find_by_id: the ids found
find_by_username(us, username) == {id \in DOMAIN us : us[id].username = username}

find_by_email(us, email) == {id \in DOMAIN us : us[id].email = email}

find_by_id(us, user_id) == {id \in DOMAIN us : id = user_id}

\* the id SQLite gives the next users row
NewUserId(us) ==
    IF DOMAIN us = {} THEN 1
    ELSE (CHOOSE m \in DOMAIN us : \A i \in DOMAIN us : i <= m) + 1

\* UserOperations.delete_user
delete_user(us, user_id) == [id \in (DOMAIN us) \ {user_id} |-> us[id]]

\* UserOperations.update_last_login
update_last_login(us, user_id, t) ==
    [id \in DOMAIN us |-> IF id = user_id THEN [us[id] EXCEPT !.last_login = {t}] ELSE us[id]]

\* generate_auth_token with a lifetime of one hour
generate_auth_token_OneHour(user_id, user, t) ==
    [user_id |-> user_id, username |-> user.username, role |-> user.role,
     exp |-> t + 3600, logged_out |-> FALSE]

\* User.generate_auth_token: the payload that is signed
generate_auth_token(user_id, user, t) ==
    [user_id |-> user_id, username |-> user.username, role |-> user.role,
     exp |-> t + expires_in, logged_out |-> FALSE]

\* log_security_event: the record handed to current_app.logger (user_id None is {})
log_security_event(user_id, event_type, description) ==
    [user_id |-> user_id, event_type |-> event_type, description |-> description]

\* jwt.decode raises ExpiredSignatureError: exp has passed.  Whether a token is
\* expired at the very second of exp depends on the installed PyJWT (inclusive).
Expired(exp, t, inclusive) == IF inclusive THEN exp <= t ELSE exp < t

\* token_required, were it to turn away the token of a deactivated user
token_required_ActiveOnly(tokens, us, t, inclusive) ==
    IF tokens = {}
    THEN [code |-> 401, msg |-> "Token is missing", user |-> {}]
    ELSE LET data == CHOOSE tk \in tokens : TRUE
             user == find_by_id(us, data.user_id)
         IN  IF Expired(data.exp, t, inclusive)
             THEN [code |-> 401, msg |-> "Token has expired", user |-> {}]
             ELSE IF user = {}
             THEN [code |-> 401, msg |-> "User not found", user |-> {}]
             ELSE IF \E id \in user : ~us[id].is_active
             THEN [code |-> 401, msg |-> "Account is deactivated", user |-> {}]
             ELSE [code |-> 200, msg |-> "", user |-> user]

\* token_required: the status and message it answers with (200: the handler runs)
\* and the ids of the user it hands to the handler
token_required(tokens, us, t, inclusive) ==
    IF tokens = {}
    THEN [code |-> 401, msg |-> "Token is missing", user |-> {}]
    ELSE LET data == CHOOSE tk \in tokens : TRUE
             user == find_by_id(us, data.user_id)
         IN  IF Expired(data.exp, t, inclusive)
             THEN [code |-> 401, msg |-> "Token has expired", user |-> {}]
             ELSE IF user = {}
             THEN [code |-> 401, msg |-> "User not found", user |-> {}]
             ELSE [code |-> 200, msg |-> "", user |-> user]

\* the message login answers a failed credential check with, were it to say which
\* of the two checks failed
InvalidCredentialsMessage_Telling(found) ==
    IF found THEN "Invalid password" ELSE "Unknown username"

\* the message login answers a failed credential check with
InvalidCredentialsMessage(found) == "Invalid username or password"

\* login's is_active test, were it absent
LoginRefusesInactive_Never(user) == FALSE

\* if not user.is_active
LoginRefusesInactive(user) == ~user.is_active

\* what logout does to the users table, were it to remove the caller
logout_users_DeleteCaller(us, user_id) == delete_user(us, user_id)

\* what logout does to the users table: nothing
logout_users(us, user_id) == us

LoginRequests ==
    {[username |-> u, password |-> pw] :
        u \in {"patient", "newuser", "ghost", "<patient>"},
        pw \in {"patient123", "Newpass123", "wrong"}}
    \cup {[username |-> "patient"]}

\* the reply of an auth route: what it answered, the token it issued, the
\* records it handed to the logger, and the user a protected handler ran as
AuthReply(op, username, code, msg, issued, logged, user) ==
    [op |-> op, username |-> username, code |-> code, msg |-> msg,
     issued |-> issued, logged |-> logged, user |-> user]

InitAuth ==
    /\ pd = EmptyDict
    /\ riskOut = NoRisk
    /\ cfg = DefaultConfig
    /\ score = 0
    /\ levelOut = NoLevel
    /\ patients = EmptyDict
    /\ pLast = NoCall
    /\ users = InitialUsers
    /\ appts = EmptyDict
    /\ today = 1
    /\ now = 0
    /\ aLast = NoCall
    /\ token = {}
    /\ securityLogs = <<>>
    /\ reset_tokens = EmptyDict
    /\ threads = NoThreads
    /\ medical_history = EmptyDict

\* login: the users table it leaves, the token it issues and its reply
login(us, data, t) ==
    LET submitted == Get(data, "username", "")
        failed(code, msg, logged) ==
            [users |-> us, issued |-> {},
             reply |-> AuthReply("login", submitted, code, msg, {}, logged, {})]
    IN  IF Get(data, "username", "") = "" \/ Get(data, "password", "") = ""
        THEN failed(400, "Username and password are required", <<>>)
        ELSE IF sanitize_input(data["username"]) # data["username"]
        THEN failed(400, "Username contains invalid whitespace or characters", <<>>)
        ELSE LET username == sanitize_input(data["username"])
                 user == find_by_username(us, username)
             IN  IF user = {} \/ \E id \in user : ~check_password(us[id], data["password"])
                 THEN failed(401, InvalidCredentialsMessage(user # {}),
                             <<log_security_event({}, "LOGIN_FAILED",
                                 "Failed login attempt for username: " \o username)>>)
                 ELSE LET id == CHOOSE id \in user : TRUE
                          issued == generate_auth_token(id, us[id], t)
                      IN  IF LoginRefusesInactive(us[id])
                          THEN failed(401, "Account is deactivated", <<>>)
                          ELSE [users |-> update_last_login(us, id, t),
                                issued |-> {issued},
                                reply |-> AuthReply("login", submitted, 200,
                                    "Login successful", {issued},
                                    <<log_security_event({id}, "LOGIN_SUCCESS",
                                        "User " \o username \o " logged in successfully")>>,
                                    {id})]

\* POST /api/auth/login; the client keeps the token it is issued
Login ==
    \E data \in LoginRequests :
        LET result == login(users, data, now)
        IN  /\ users' = result.users
            /\ token' = IF result.issued = {} THEN token ELSE result.issued
            /\ aLast' = result.reply
            /\ UNCHANGED <<riskVars, patientVars, appts, today, now, securityLogs, reset_tokens, threads, medical_history>>

\* GET /api/auth/me
GetCurrentUser ==
    \E inclusive \in BOOLEAN :
        LET checked == token_required(token, users, now, inclusive)
        IN  /\ aLast' = AuthReply("me", "", checked.code, checked.msg, token, <<>>, checked.user)
            /\ UNCHANGED <<riskVars, patientVars, users, appts, today, now, authVars, threads, medical_history>>

\* POST /api/auth/logout
Logout ==
    \E inclusive \in BOOLEAN :
        LET checked == token_required(token, users, now, inclusive)
        IN  /\ IF checked.code # 200
               THEN /\ aLast' = AuthReply("logout", "", checked.code, checked.msg, token, <<>>, {})
                    /\ UNCHANGED <<users, token>>
               ELSE LET id == CHOOSE id \in checked.user : TRUE
                    IN  /\ users' = logout_users(users, id)
                        /\ token' = {[tk EXCEPT !.logged_out = TRUE] : tk \in token}
                        /\ aLast' = AuthReply("logout", users[id].username, 200,
                                        "Logout successful", token,
                                        <<log_security_event({id}, "LOGOUT",
                                            "User " \o users[id].username \o " logged out")>>,
                                        {id})
            /\ UNCHANGED <<riskVars, patientVars, appts, today, now, securityLogs, reset_tokens, threads, medical_history>>

\* validate_email on the addresses the model submits
validate_email(email) ==
    email \in {"admin@strokecare.com", "doctor@strokecare.com", "patient@strokecare.com",
               "new@strokecare.com"}

\* validate_password on the passwords the model submits
validate_password(password) ==
    CASE password = "weak" ->
            [ok |-> FALSE, msg |-> "Password must be at least 8 characters long"]
      [] password = "patient123" ->
            [ok |-> FALSE, msg |-> "Password must contain at least one uppercase letter"]
      [] OTHER -> [ok |-> TRUE, msg |-> "Password is valid"]

\* UserOperations.create_user: the table after the insert; the commit fails on
\* the unique constraints of username and email, and the table is left as it was
create_user(us, username, email, password, role) ==
    IF find_by_username(us, username) # {} \/ find_by_email(us, email) # {}
    THEN us
    ELSE [id \in (DOMAIN us) \cup {NewUserId(us)} |->
             IF id \in DOMAIN us THEN us[id] ELSE UserRow(username, email, password, role)]

\* not data.get(field), for a field that holds a string
Blank(data, field) == field \notin DOMAIN data \/ data[field] = ""

AccountFields == {"username", "email", "password", "first_name", "last_name", "role"}

AccountRequests ==
    {[username |-> u, email |-> e, password |-> "Newpass123", first_name |-> "New",
      last_name |-> "User", role |-> "patient"] :
        u \in {"newuser", "patient"},
        e \in {"new@strokecare.com", "patient@strokecare.com"}}
    \cup {[username |-> "<patient>", email |-> "new@strokecare.com", password |-> "Newpass123",
           first_name |-> "New", last_name |-> "User", role |-> "patient"],
          [username |-> "patient", email |-> "new-at-strokecare", password |-> "Newpass123",
           first_name |-> "New", last_name |-> "User", role |-> "patient"],
          [username |-> "patient", email |-> "new@strokecare.com", password |-> "weak",
           first_name |-> "New", last_name |-> "User", role |-> "patient"],
          [username |-> "newuser", email |-> "new@strokecare.com", password |-> "Newpass123",
           first_name |-> "New", last_name |-> "User", role |-> "nurse"],
          [username |-> "newuser", email |-> "new@strokecare.com", password |-> "Newpass123",
           first_name |-> "New", role |-> "patient"]}

\* the reply of an account-creating route: the request, the answer, the new id
AccountReply(op, req, code, msg, id) ==
    [op |-> op, req |-> req, code |-> code, msg |-> msg, user |-> id]

\* register's test for a taken email, were it absent
EmailTaken_Never(us, email) == FALSE

\* if UserOperations.find_by_email(email)
EmailTaken(us, email) == find_by_email(us, email) # {}

\* register: the users table it leaves and its reply
register(us, data) ==
    LET answer(code, msg) ==
            [users |-> us, reply |-> AccountReply("register", data, code, msg, {})]
    IN  IF \E field \in AccountFields : Blank(data, field)
        THEN answer(400, "field is required")
        ELSE LET username == sanitize_input(data["username"])
                 email == sanitize_input(data["email"])
                 role == sanitize_input(data["role"])
                 created == create_user(us, username, email, data["password"], role)
             IN  IF ~validate_email(email)
                 THEN answer(400, "Invalid email format")
                 ELSE IF ~validate_password(data["password"]).ok
                 THEN answer(400, validate_password(data["password"]).msg)
                 ELSE IF find_by_username(us, username) # {}
                 THEN answer(409, "Username already exists")
                 ELSE IF EmailTaken(us, email)
                 THEN answer(409, "Email already exists")
                 ELSE IF role \notin {"patient", "doctor", "admin"}
                 THEN answer(400, "Invalid role")
                 ELSE IF created = us
                 THEN answer(500, "Failed to create user")
                 ELSE [users |-> created,
                       reply |-> AccountReply("register", data, 201,
                                    "User registered successfully", {NewUserId(us)})]

\* create_user of the admin routes: the users table it leaves and its reply
admin_create_user(us, data) ==
    LET answer(code, msg) ==
            [users |-> us, reply |-> AccountReply("create_user", data, code, msg, {})]
        created == create_user(us, data["username"], data["email"], data["password"],
                               data["role"])
    IN  IF \E field \in AccountFields : field \notin DOMAIN data
        THEN answer(400, "Missing required field")
        ELSE IF find_by_username(us, data["username"]) # {}
        THEN answer(409, "Username already exists")
        ELSE IF find_by_email(us, data["email"]) # {}
        THEN answer(409, "Email already exists")
        ELSE IF created = us
        THEN answer(500, "Failed to create user")
        ELSE [users |-> created,
              reply |-> AccountReply("create_user", data, 201,
                           "User created successfully", {NewUserId(us)})]

\* POST /api/auth/register
Register ==
    \E data \in AccountRequests :
        LET result == register(users, data)
        IN  /\ \A id \in DOMAIN result.users : id <= MaxUsers
            /\ users' = result.users
            /\ aLast' = result.reply
            /\ UNCHANGED <<riskVars, patientVars, appts, today, now, authVars, threads, medical_history>>

\* POST /api/admin/users, sent by an administrator
CreateUser ==
    \E data \in AccountRequests :
        LET result == admin_create_user(users, data)
        IN  /\ \E admin \in DOMAIN users : users[admin].role = "admin"
            /\ \A id \in DOMAIN result.users : id <= MaxUsers
            /\ users' = result.users
            /\ aLast' = result.reply
            /\ UNCHANGED <<riskVars, patientVars, appts, today, now, authVars, threads, medical_history>>

\* PUT /api/admin/users/<user_id> with {"is_active": ...}, sent by an administrator
UpdateUser ==
    \E user_id \in DOMAIN users, is_active \in BOOLEAN :
        /\ users[user_id].role = "patient"
        /\ \E admin \in DOMAIN users : users[admin].role = "admin"
        /\ users' = [users EXCEPT ![user_id].is_active = is_active]
        /\ aLast' = AccountReply("update_user", [is_active |-> is_active], 200,
                                 "User updated successfully", {user_id})
        /\ UNCHANGED <<riskVars, patientVars, appts, today, now, authVars, threads, medical_history>>

\* UserOperations.delete_user (no route calls it), for a patient's account
DeleteUser ==
    \E user_id \in DOMAIN users :
        /\ users[user_id].role = "patient"
        /\ users' = delete_user(users, user_id)
        /\ aLast' = AccountReply("delete_user", EmptyDict, 0, "True", {user_id})
        /\ UNCHANGED <<riskVars, patientVars, appts, today, now, authVars, threads, medical_history>>

\* time passes
Advance ==
    /\ now < MaxTicks * TickSeconds
    /\ now' = now + TickSeconds
    /\ UNCHANGED <<riskVars, patientVars, users, appts, today, aLast, authVars, threads, medical_history>>

NextAuth ==
    \/ Login
    \/ GetCurrentUser
    \/ Logout
    \/ UpdateUser
    \/ Advance

SpecAuth == InitAuth /\ [][NextAuth]_vars

\* accounts come and go while a client holds a token
NextIdentity ==
    \/ Login
    \/ GetCurrentUser
    \/ Register
    \/ DeleteUser

SpecIdentity == InitAuth /\ [][NextIdentity]_vars

(***************************************************************************)
(* C11: every login attempt that reaches credential checking (success,     *)
(* unknown username, wrong password or deactivated account) appends        *)
(* exactly one row to the security audit log, carrying the submitted       *)
(* username; a success is recorded with event_type login, a failure with   *)
(* event_type failed_login and status failure.                             *)
(***************************************************************************)
C11_LoginStep ==
    (now' = now /\ aLast'.op = "login" /\ aLast'.code \in {200, 401}) =>
        /\ Len(securityLogs') = Len(securityLogs) + 1
        /\ LET entry == securityLogs'[Len(securityLogs')]
           IN  /\ entry.username = aLast'.username
               /\ IF aLast'.code = 200
                  THEN entry.event_type = "login"
                  ELSE entry.event_type = "failed_login" /\ entry.status = "failure"

C11_LoginAppendsAuditEntry == [][C11_LoginStep]_vars

(***************************************************************************)
(* C12: a token issued at time t with the default lifetime carries the     *)
(* expiry t + 24h; while its identity exists it is accepted by token       *)
(* verification at every time before t + 24h and rejected as expired at    *)
(* every time after; time never runs backwards, so a token once rejected   *)
(* as expired is never accepted again.                                     *)
(***************************************************************************)
DocTokenLifetime == 24 * 60 * 60

C12_TokenStep ==
    /\ now' >= now
    /\ (now' = now /\ aLast'.op = "login" /\ aLast'.code = 200) =>
          \A tk \in aLast'.issued : tk.exp = now + DocTokenLifetime
    /\ (now' = now /\ aLast'.op = "me") =>
          \A tk \in token :
              find_by_id(users, tk.user_id) # {} =>
                  /\ now < tk.exp => aLast'.code = 200 /\ aLast'.user = {tk.user_id}
                  /\ now > tk.exp => aLast'.code = 401 /\ aLast'.msg = "Token has expired"

C12_TokenLifetime == [][C12_TokenStep]_vars

\* a token of an existing identity has been refused as expired after its 24 hours
C12_Witness ==
    /\ aLast.op = "me"
    /\ aLast.code = 401
    /\ aLast.msg = "Token has expired"
    /\ \E tk \in token : /\ now > tk.exp
                         /\ tk.exp >= DocTokenLifetime
                         /\ find_by_id(users, tk.user_id) # {}

(***************************************************************************)
(* C13: token verification resolves the embedded identity id through the   *)
(* users table on every request: a signed, unexpired token whose identity  *)
(* has been deleted since it was issued is rejected with 401 and the       *)
(* protected handler is not run.  (No route changes a username, so a row   *)
(* whose username differs from the token's is not the token's identity.)   *)
(***************************************************************************)
C13_DeletedStep ==
    (now' = now /\ aLast'.op = "me") =>
        \A tk \in token :
            (\/ find_by_id(users, tk.user_id) = {}
             \/ users[tk.user_id].username # tk.username)
                => aLast'.code = 401 /\ aLast'.user = {}

C13_DeletedIdentityRejected == [][C13_DeletedStep]_vars

(***************************************************************************)
(* C14: logout does not invalidate the token: logout changes no state that *)
(* token verification reads (the users table), and after a successful      *)
(* logout the same token is still accepted by a protected operation at     *)
(* every time before its expiry.                                           *)
(***************************************************************************)
C14_LogoutStep ==
    /\ (now' = now /\ aLast'.op = "logout") =>
          /\ users' = users
          /\ securityLogs' = securityLogs
          /\ \A tk \in token : \E kept \in token' :
                kept.user_id = tk.user_id /\ kept.exp = tk.exp
    /\ (now' = now /\ aLast'.op = "me") =>
          \A tk \in token :
              (tk.logged_out /\ now < tk.exp) =>
                  aLast'.code = 200 /\ aLast'.user = {tk.user_id}

C14_LogoutKeepsToken == [][C14_LogoutStep]_vars

\* a token with which logout was called has been accepted, some time after the login
C14_Witness ==
    /\ aLast.op = "me"
    /\ aLast.code = 200
    /\ now > 0
    /\ \E tk \in token : tk.logged_out /\ now < tk.exp /\ aLast.user = {tk.user_id}

(***************************************************************************)
(* C15: a login with the correct password for an identity whose is_active  *)
(* is false fails with 401 (account deactivated): no token is issued and   *)
(* last_login is not updated.  For an active identity with the correct     *)
(* password it issues a token and sets last_login to the time of the call. *)
(***************************************************************************)
C15_DeactivatedLoginFails ==
    \A data \in LoginRequests, id \in DOMAIN users :
        (/\ "password" \in DOMAIN data
         /\ users[id].username = data["username"]
         /\ users[id].password_hash = set_password(data["password"]))
        => LET result == login(users, data, now)
           IN  IF users[id].is_active
               THEN /\ result.reply.code = 200
                    /\ result.issued # {}
                    /\ \A tk \in result.issued : tk.user_id = id
                    /\ result.users[id].last_login = {now}
               ELSE /\ result.reply.code = 401
                    /\ result.reply.msg = "Account is deactivated"
                    /\ result.issued = {}
                    /\ result.users = users

\* a deactivated account that had logged in before has been refused, its
\* last_login still the time of the earlier login
C15_Witness ==
    /\ aLast.op = "login"
    /\ aLast.code = 401
    /\ aLast.msg = "Account is deactivated"
    /\ aLast.issued = {}
    /\ \E id \in DOMAIN users :
          /\ users[id].username = aLast.username
          /\ ~users[id].is_active
          /\ \E t \in users[id].last_login : t < now

(***************************************************************************)
(* C16: a failed login does not reveal whether the username exists: for    *)
(* two states that differ only in whether the submitted username is        *)
(* registered, a login whose password does not match answers with the same *)
(* status and the same message in both.                                    *)
(***************************************************************************)
C16_LoginHidesUsername ==
    \A data \in LoginRequests, id \in DOMAIN users :
        (/\ "password" \in DOMAIN data
         /\ users[id].username = data["username"]
         /\ users[id].password_hash # set_password(data["password"]))
        => LET registered == login(users, data, now).reply
               unknown == login(delete_user(users, id), data, now).reply
           IN  /\ registered.code = unknown.code
               /\ registered.msg = unknown.msg
               /\ registered.issued = unknown.issued

\* a wrong password for a registered, deactivated account has been answered with
\* the status and message an unknown username gets
C16_Witness ==
    /\ aLast.op = "login"
    /\ aLast.code = 401
    /\ aLast.msg = "Invalid username or password"
    /\ \E id \in DOMAIN users : users[id].username = aLast.username /\ ~users[id].is_active
(***************************************************************************)
(* The patient routes: POST /api/patients/register, POST                   *)
(* /api/patients/self-register and PUT /api/patients/<patient_id>.  The    *)
(* requests carry JSON numbers in the numeric fields, for which the int()  *)
(* and float() of _convert_patient_numbers return the number itself.       *)
(***************************************************************************)
PATIENT_FIELDS ==
    {"gender", "age", "hypertension", "heart_disease", "ever_married", "work_type",
     "Residence_type", "avg_glucose_level", "bmi", "smoking_status", "stroke"}

\* validate_patient_data: the set of the error messages it returns
validate_patient_data(patient_data) ==
    LET absent(k) == k \notin DOMAIN patient_data
    IN  (IF absent("age") \/ patient_data["age"] < 0 \/ patient_data["age"] > 120
         THEN {"Age must be between 0 and 120"} ELSE {})
        \cup (IF absent("bmi") \/ patient_data["bmi"] < 10 \/ patient_data["bmi"] > 60
              THEN {"BMI must be between 10 and 60"} ELSE {})
        \cup (IF absent("avg_glucose_level") \/ patient_data["avg_glucose_level"] < 50
                 \/ patient_data["avg_glucose_level"] > 300
              THEN {"Glucose level must be between 50 and 300"} ELSE {})
        \cup (IF absent("hypertension") \/ patient_data["hypertension"] \notin {0, 1}
              THEN {"Hypertension must be 0 or 1"} ELSE {})
        \cup (IF absent("heart_disease") \/ patient_data["heart_disease"] \notin {0, 1}
              THEN {"Heart disease must be 0 or 1"} ELSE {})
        \cup (IF absent("stroke") \/ patient_data["stroke"] \notin {0, 1}
              THEN {"Stroke must be 0 or 1"} ELSE {})
        \cup (IF absent("gender") \/ patient_data["gender"] \notin {"Male", "Female", "Other"}
              THEN {"Gender must be one of: Male, Female, Other"} ELSE {})
        \cup (IF absent("work_type")
                 \/ patient_data["work_type"] \notin {"Private", "Self-employed", "Govt_job",
                                                      "Children", "Never_worked"}
              THEN {"Work type must be one of"} ELSE {})
        \cup (IF absent("smoking_status")
                 \/ patient_data["smoking_status"] \notin {"Never smoked", "Smokes",
                                                           "Formerly smoked", "Unknown"}
              THEN {"Smoking status must be one of"} ELSE {})

\* the fields of a patient payload that hold text
TextFields == {"gender", "ever_married", "work_type", "Residence_type", "smoking_status"}

\* _prepare_patient_payload: the patient fields present, the text ones sanitized
prepare_patient_payload(converted_data) ==
    [field \in PATIENT_FIELDS \cap DOMAIN converted_data |->
        IF field \in TextFields THEN sanitize_input(converted_data[field])
        ELSE converted_data[field]]

\* the rowid of the next row of a patients table
NewPatientIdIn(ps) ==
    IF DOMAIN ps = {} THEN 1
    ELSE (CHOOSE m \in DOMAIN ps : \A i \in DOMAIN ps : i <= m) + 1

\* patient_service.create_patient on a patients table
create_patient(ps, patient_data) ==
    [id \in (DOMAIN ps) \cup {NewPatientIdIn(ps)} |->
        IF id \in DOMAIN ps THEN ps[id] ELSE NewPatientRow(patient_data)]

\* a complete patient form
PatientForm == Restrict(BasePatient, PATIENT_FIELDS)

\* the patient forms sent: a complete one, one for each documented range and
\* enumeration with a value outside it, and one without a required field
PatientForms ==
    {PatientForm,
     [PatientForm EXCEPT !["age"] = 121],
     [PatientForm EXCEPT !["bmi"] = 9],
     [PatientForm EXCEPT !["avg_glucose_level"] = 301],
     [PatientForm EXCEPT !["hypertension"] = 2],
     [PatientForm EXCEPT !["smoking_status"] = "Vapes"],
     Restrict(PatientForm, PATIENT_FIELDS \ {"stroke"})}

\* the bodies sent to PUT /api/patients/<patient_id>
RoutePatches ==
    {[age |-> 61],
     [age |-> 121],
     [smoking_status |-> "Vapes"],
     [name |-> "Test Patient"]}

\* how patient_service.create_patient ends: it returns the new id, it raises,
\* or it returns no id
StorageOutcomes == {"ok", "raises", "no_id"}

\* the reply of a patient route
PatientReply(op, caller, req, code, msg, user, patient, storage) ==
    [op |-> op, caller |-> caller, req |-> req, code |-> code, msg |-> msg, user |-> user,
     patient |-> patient, storage |-> storage]

\* self_register_patient's removal of the account, were it absent
rollback_user_Keep(us, user_id) == us

\* db.session.delete(user); db.session.commit()
rollback_user(us, user_id) == delete_user(us, user_id)

\* self_register_patient: the two tables it leaves and its reply
self_register_patient(us, ps, data, storage) ==
    LET answer(code, msg) ==
            [users |-> us, patients |-> ps,
             reply |-> PatientReply("self_register", {}, data, code, msg, {}, {}, storage)]
    IN  IF \E field \in PATIENT_FIELDS : field \notin DOMAIN data
        THEN answer(400, "field is required")
        ELSE IF \E field \in {"username", "password", "email", "first_name", "last_name"} :
                    Blank(data, field)
        THEN answer(400, "field is required")
        ELSE LET username == data["username"]
                 email == data["email"]
                 password == data["password"]
                 user_id == NewUserId(us)
                 created == create_user(us, username, email, password, "patient")
                 sanitized_data ==
                     DictUpdate(prepare_patient_payload(data),
                                [created_by |-> user_id, assigned_doctor_id |-> None])
             IN  IF username # sanitize_input(username)
                 THEN answer(400, "Username cannot contain spaces or invalid characters")
                 ELSE IF Len(username) < 3
                 THEN answer(400, "Username must be at least 3 characters")
                 ELSE IF find_by_username(us, username) # {}
                 THEN answer(409, "Username already exists")
                 ELSE IF ~validate_email(email)
                 THEN answer(400, "Valid email is required")
                 ELSE IF find_by_email(us, email) # {}
                 THEN answer(409, "Email already exists")
                 ELSE IF ~validate_password(password).ok
                 THEN answer(400, validate_password(password).msg)
                 ELSE IF validate_patient_data(data) # {}
                 THEN answer(400, "Validation errors")
                 ELSE IF created = us
                 THEN answer(409, "Username or email already exists")
                 ELSE IF storage = "ok"
                 THEN [users |-> created,
                       patients |-> create_patient(ps, sanitized_data),
                       reply |-> PatientReply("self_register", {}, data, 201,
                                    "Patient self-registration submitted successfully",
                                    {user_id}, {NewPatientIdIn(ps)}, storage)]
                 ELSE [users |-> rollback_user(created, user_id),
                       patients |-> ps,
                       reply |-> PatientReply("self_register", {}, data, 500,
                                    "Failed to register patient", {}, {}, storage)]

\* the account part of a self-registration
SelfAccount(req) == Restrict(req, (DOMAIN req) \ {"role"})

\* a self-registration that passes every check when its names are free
GoodAccount == CHOOSE req \in AccountRequests : /\ DOMAIN req = AccountFields
                                                /\ req["username"] = "newuser"
                                                /\ req["email"] = "new@strokecare.com"
                                                /\ validate_password(req["password"]).ok
                                                /\ req["role"] = "patient"

\* the self-registrations sent: every account with the complete form under every way
\* the patient store ends, and the good account with every form
SelfRequests ==
    {[data |-> DictUpdate(PatientForm, SelfAccount(acct)), storage |-> storage] :
        acct \in AccountRequests, storage \in StorageOutcomes}
    \cup {[data |-> DictUpdate(form, SelfAccount(GoodAccount)), storage |-> "ok"] :
            form \in PatientForms}

\* POST /api/patients/self-register
SelfRegister ==
    \E request \in SelfRequests :
        LET result == self_register_patient(users, patients, request.data, request.storage)
        IN  /\ \A id \in DOMAIN result.users : id <= MaxUsers
            /\ Cardinality(DOMAIN result.patients) <= MaxPatients
            /\ users' = result.users
            /\ patients' = result.patients
            /\ aLast' = result.reply
            /\ UNCHANGED <<riskVars, pLast, appts, today, now, authVars, threads, medical_history>>

\* POST /api/patients/register, sent by a doctor or an administrator
RegisterPatient ==
    \E caller \in DOMAIN users, data \in PatientForms :
        LET sanitized_data ==
                DictUpdate(prepare_patient_payload(data),
                           [created_by |-> caller,
                            assigned_doctor_id |->
                                IF users[caller].role = "doctor" THEN caller ELSE None])
            answer(code, msg) ==
                /\ patients' = patients
                /\ aLast' = PatientReply("register_patient", caller, data, code, msg, {}, {}, "ok")
        IN  /\ users[caller].role \in {"admin", "doctor"}
            /\ IF \E field \in PATIENT_FIELDS : field \notin DOMAIN data
               THEN answer(400, "field is required")
               ELSE IF validate_patient_data(data) # {}
               THEN answer(400, "Validation errors")
               ELSE /\ Cardinality(DOMAIN patients) < MaxPatients
                    /\ patients' = create_patient(patients, sanitized_data)
                    /\ aLast' = PatientReply("register_patient", caller, data, 201,
                                    "Patient registered successfully", {},
                                    {NewPatientIdIn(patients)}, "ok")
            /\ UNCHANGED <<riskVars, pLast, users, appts, today, now, authVars, threads, medical_history>>

\* PUT /api/patients/<patient_id>, sent by a doctor or an administrator
UpdatePatientRoute ==
    \E caller \in DOMAIN users, patient_id \in PatientIds, data \in RoutePatches :
        LET update_payload == Restrict(data, PATIENT_FIELDS \cap DOMAIN data)
            sanitized_data == prepare_patient_payload(update_payload)
            answer(code, msg) ==
                /\ patients' = patients
                /\ aLast' = PatientReply("update_patient", caller, data, code, msg, {},
                                         {patient_id}, "ok")
        IN  /\ users[caller].role \in {"admin", "doctor"}
            /\ IF DOMAIN update_payload = {}
               THEN answer(400, "No valid fields provided for update")
               ELSE IF patient_id \notin DOMAIN patients
               THEN answer(404, "Patient not found")
               ELSE /\ patients' = [patients EXCEPT ![patient_id] =
                                        UpdatedRow(patient_id, patients[patient_id],
                                                   sanitized_data)]
                    /\ aLast' = PatientReply("update_patient", caller, data, 200,
                                    "Patient updated successfully", {}, {patient_id}, "ok")
            /\ UNCHANGED <<riskVars, pLast, users, appts, today, now, authVars, threads, medical_history>>

NextAccounts == Register \/ CreateUser \/ SelfRegister \/ RegisterPatient \/ UpdatePatientRoute

SpecAccounts == InitAuth /\ [][NextAccounts]_vars
(***************************************************************************)
(* Uniqueness of usernames and emails                                      *)
(***************************************************************************)
CreationOps == {"register", "create_user", "self_register"}

\* the username and the email a creation route looks up and stores
SubmittedUsername(reply) ==
    IF reply.op = "register" THEN sanitize_input(reply.req["username"])
    ELSE reply.req["username"]

SubmittedEmail(reply) ==
    IF reply.op = "register" THEN sanitize_input(reply.req["email"])
    ELSE reply.req["email"]

\* the request passes every check of its route other than the two lookups
ValidButForDuplicates(reply) ==
    LET req == reply.req
    IN  CASE reply.op = "register" ->
                /\ \A field \in AccountFields : ~Blank(req, field)
                /\ validate_email(sanitize_input(req["email"]))
                /\ validate_password(req["password"]).ok
                /\ sanitize_input(req["role"]) \in {"patient", "doctor", "admin"}
          [] reply.op = "create_user" ->
                \A field \in AccountFields : field \in DOMAIN req
          [] OTHER ->
                /\ PATIENT_FIELDS \subseteq DOMAIN req
                /\ \A field \in {"username", "password", "email", "first_name", "last_name"} :
                        ~Blank(req, field)
                /\ req["username"] = sanitize_input(req["username"])
                /\ Len(req["username"]) >= 3
                /\ validate_email(req["email"])
                /\ validate_password(req["password"]).ok
                /\ validate_patient_data(req) = {}

C17_CreateStep ==
    (aLast'.op \in CreationOps /\ {"username", "email"} \subseteq DOMAIN aLast'.req) =>
        /\ (\/ find_by_username(users, SubmittedUsername(aLast')) # {}
            \/ find_by_email(users, SubmittedEmail(aLast')) # {}) =>
                /\ users' = users
                /\ patients' = patients
                /\ aLast'.code \in {400, 409}
                /\ ValidButForDuplicates(aLast') => aLast'.code = 409
        /\ \A i, j \in DOMAIN users' :
                (\/ users'[i].username = users'[j].username
                 \/ users'[i].email = users'[j].email) => i = j

\* C17: on every creation path (register, the administrators' create user,
\* self-registration) a call whose username or email is already held by a stored
\* identity stores nothing and is refused, with 409 when the request is otherwise
\* valid, and no two stored identities ever share a username or an email
C17_DuplicatesRefused == [][C17_CreateStep]_vars

\* a creation route has answered 409 for the username of an identity that an
\* earlier call of this behaviour created
C17_Witness ==
    /\ aLast.op \in CreationOps
    /\ aLast.code = 409
    /\ \E id \in DOMAIN users : id > 3 /\ users[id].username = SubmittedUsername(aLast)
(***************************************************************************)
(* Self-registration writes an identity and a patient record, or neither   *)
(***************************************************************************)
C18_SelfRegisterStep ==
    aLast'.op = "self_register" =>
        IF aLast'.code = 201
        THEN /\ aLast'.storage = "ok"
             /\ \E user_id \in (DOMAIN users') \ (DOMAIN users) :
                    /\ DOMAIN users' = (DOMAIN users) \cup {user_id}
                    /\ \A id \in DOMAIN users : users'[id] = users[id]
                    /\ users'[user_id].role = "patient"
                    /\ users'[user_id].username = aLast'.req["username"]
                    /\ aLast'.user = {user_id}
                    /\ \E patient_id \in (DOMAIN patients') \ (DOMAIN patients) :
                            /\ DOMAIN patients' = (DOMAIN patients) \cup {patient_id}
                            /\ \A id \in DOMAIN patients : patients'[id] = patients[id]
                            /\ patients'[patient_id].created_by = user_id
                            /\ patients'[patient_id].assigned_doctor_id = None
                            /\ aLast'.patient = {patient_id}
        ELSE /\ users' = users
             /\ patients' = patients
             /\ aLast'.storage # "ok" => aLast'.code # 201

PatientWritingOps == {"register_patient", "self_register", "update_patient"}

\* a patient field of the request holds a value outside the documented domain
OutOfDomain(req) ==
    validate_patient_data(
        DictUpdate(PatientForm, Restrict(req, PATIENT_FIELDS \cap DOMAIN req))) # {}

C19_WriteStep ==
    /\ (aLast'.op \in PatientWritingOps /\ OutOfDomain(aLast'.req)) =>
            /\ aLast'.code \in {400, 404, 409}
            /\ patients' = patients
    /\ \A id \in DOMAIN patients' :
            validate_patient_data(Restrict(patients'[id], PATIENT_FIELDS)) = {}

\* C19: on POST /patients/register, POST /patients/self-register and PUT
\* /patients/<id> a request carrying a value outside the documented domain is
\* refused and writes nothing, so that every stored patient record stays within
\* the documented domain
C19_ValidationPrecedesPersistence == [][C19_WriteStep]_vars
(***************************************************************************)
(* Password reset: POST /auth/forgot-password and /auth/verify-reset-token *)
(***************************************************************************)
\* timedelta(hours=1), in seconds
ResetTokenLifetime == 3600

\* the values secrets.token_urlsafe(32) is drawn from
ResetTokenIds == {"tokA", "tokB"}

\* data['email'].strip().lower() on the addresses sent
strip_lower(email) ==
    CASE email = "PATIENT@STROKECARE.COM" -> "patient@strokecare.com"
      [] email = " doctor@strokecare.com " -> "doctor@strokecare.com"
      [] OTHER -> email

\* generate_reset_token: the token map after the token drawn is stored
generate_reset_token(tokens, email, t, drawn) ==
    DictUpdate(tokens, [k \in {drawn} |-> [email |-> email, expires_at |-> t + ResetTokenLifetime]])

\* verify_reset_token: the email it returns, if any, and the token map it leaves
verify_reset_token(tokens, tok, t) ==
    IF tok \notin DOMAIN tokens
    THEN [email |-> {}, tokens |-> tokens]
    ELSE IF t > tokens[tok].expires_at
    THEN [email |-> {}, tokens |-> Restrict(tokens, (DOMAIN tokens) \ {tok})]
    ELSE [email |-> {tokens[tok].email}, tokens |-> tokens]

ResetMessage ==
    "If an account with that email exists, password reset instructions have been sent"

\* the bodies sent to POST /auth/forgot-password
ForgotRequests ==
    {[email |-> e] : e \in {"patient@strokecare.com", "PATIENT@STROKECARE.COM",
                            " doctor@strokecare.com ", "nobody@strokecare.com"}}
    \cup {EmptyDict}

\* forgot_password: the token map it leaves and its reply
forgot_password(us, tokens, data, t, drawn) ==
    IF "email" \notin DOMAIN data
    THEN [tokens |-> tokens,
          reply |-> [op |-> "forgot_password", req |-> data, code |-> 400,
                     body |-> [message |-> "Email is required"]]]
    ELSE LET email == strip_lower(data["email"])
         IN  IF find_by_email(us, email) = {}
             THEN [tokens |-> tokens,
                   reply |-> [op |-> "forgot_password", req |-> data, code |-> 200,
                              body |-> [message |-> ResetMessage]]]
             ELSE [tokens |-> generate_reset_token(tokens, email, t, drawn),
                   reply |-> [op |-> "forgot_password", req |-> data, code |-> 200,
                              body |-> [message |-> ResetMessage,
                                        dev_reset_link |-> drawn]]]

\* POST /auth/forgot-password
ForgotPassword ==
    \E data \in ForgotRequests, drawn \in ResetTokenIds :
        LET result == forgot_password(users, reset_tokens, data, now, drawn)
        IN  /\ reset_tokens' = result.tokens
            /\ aLast' = result.reply
            /\ UNCHANGED <<riskVars, patientVars, users, appts, today, now, token, securityLogs, threads, medical_history>>

\* POST /auth/verify-reset-token
VerifyToken ==
    \E data \in {[token |-> tok] : tok \in ResetTokenIds} \cup {EmptyDict} :
        /\ IF "token" \notin DOMAIN data
           THEN /\ reset_tokens' = reset_tokens
                /\ aLast' = [op |-> "verify_token", req |-> data, code |-> 400,
                             body |-> [message |-> "Token is required"]]
           ELSE LET verified == verify_reset_token(reset_tokens, data["token"], now)
                IN  /\ reset_tokens' = verified.tokens
                    /\ aLast' = IF verified.email = {}
                                THEN [op |-> "verify_token", req |-> data, code |-> 400,
                                      body |-> [message |-> "Invalid or expired reset token"]]
                                ELSE [op |-> "verify_token", req |-> data, code |-> 200,
                                      body |-> [message |-> "Token is valid",
                                                email |-> verified.email]]
        /\ UNCHANGED <<riskVars, patientVars, users, appts, today, now, token, securityLogs, threads, medical_history>>

NextReset == ForgotPassword \/ VerifyToken \/ Advance

SpecReset == InitAuth /\ [][NextReset]_vars

\* C20: whether or not the submitted email belongs to an identity, forgot-password
\* answers with the same status and the same body: the reply computed on the users
\* table equals the reply computed on the table without the holder of the email
C20_ForgotPasswordHidesEmail ==
    \A data \in ForgotRequests, drawn \in ResetTokenIds :
        "email" \in DOMAIN data =>
            \A holder \in find_by_email(users, strip_lower(data["email"])) :
                LET with == forgot_password(users, reset_tokens, data, now, drawn).reply
                    without == forgot_password(delete_user(users, holder), reset_tokens,
                                               data, now, drawn).reply
                IN  /\ with.code = without.code
                    /\ DOMAIN with.body = DOMAIN without.body
                    /\ with.body.message = without.body.message
(***************************************************************************)
(* The token and role gates of the protected routes.  A request carries an *)
(* Authorization header; the clients keep every token they were issued.    *)
(***************************************************************************)
MaxTokens == 2

\* the Authorization headers sent: none, one word ("Bearer"), an empty second
\* word ("Bearer "), a second word that is no token ("Bearer garbage"), and a
\* token the clients hold after the word Bearer or after another word
HeaderKinds == {"absent", "one_word", "empty_token", "garbage"}

Headers(held) ==
    {[kind |-> k, scheme |-> "Bearer", jwt |-> {}] : k \in HeaderKinds}
    \cup {[kind |-> "jwt", scheme |-> s, jwt |-> {tk}] : s \in {"Bearer", "Token"}, tk \in held}

\* token_required on a header: auth_header.split(' ')[1] is the token whatever
\* the first word is; one word alone raises IndexError
token_required_header(header, us, t, inclusive) ==
    CASE header.kind = "absent" -> [code |-> 401, msg |-> "Token is missing", user |-> {}]
      [] header.kind = "one_word" -> [code |-> 401, msg |-> "Invalid token format", user |-> {}]
      [] header.kind = "empty_token" -> [code |-> 401, msg |-> "Token is missing", user |-> {}]
      [] header.kind = "garbage" -> [code |-> 401, msg |-> "Token is invalid", user |-> {}]
      [] OTHER -> token_required(header.jwt, us, t, inclusive)

\* the two readings of "expired" differ only at the second of expiry
Comparisons(header, t) ==
    IF \E tk \in header.jwt : tk.exp = t THEN BOOLEAN ELSE {FALSE}

\* user_role in required_roles
role_allowed(user, required_roles) == user.role \in required_roles

\* token_required followed by role_required(required_roles): the status and
\* message answered (200: the handler runs) and the id of current_user
gate(header, required_roles, us, t, inclusive) ==
    LET checked == token_required_header(header, us, t, inclusive)
    IN  IF checked.code # 200
        THEN checked
        ELSE IF \E id \in checked.user : ~role_allowed(us[id], required_roles)
        THEN [code |-> 403, msg |-> "Insufficient permissions", user |-> {}]
        ELSE checked

\* the roles each gated route admits
RequiredRoles ==
    [register_patient |-> {"admin", "doctor"},
     update_patient |-> {"doctor", "admin"},
     delete_patient |-> {"admin"},
     create_user |-> {"admin"},
     update_user |-> {"admin"}]

GatedOps == DOMAIN RequiredRoles

\* the reply of a gated route
GateReply(op, header, inclusive, caller, req, code, msg) ==
    [op |-> op, header |-> header, inclusive |-> inclusive, caller |-> caller, req |-> req,
     code |-> code, msg |-> msg]

\* update_user of the admin routes: the users table it leaves and its status
admin_update_user(us, user_id, data) ==
    IF find_by_id(us, user_id) = {}
    THEN [users |-> us, code |-> 404, msg |-> "User not found"]
    ELSE LET user == us[user_id]
             activated == IF "is_active" \in DOMAIN data
                          THEN [user EXCEPT !.is_active = data["is_active"]] ELSE user
             roled == IF "role" \in DOMAIN data /\ data["role"] \in {"patient", "doctor", "admin"}
                      THEN [activated EXCEPT !.role = data["role"]] ELSE activated
             mailed == IF "email" \in DOMAIN data
                       THEN [roled EXCEPT !.email = data["email"]] ELSE roled
             worded == IF "password" \in DOMAIN data /\ data["password"] # ""
                       THEN [mailed EXCEPT !.password_hash = set_password(data["password"])]
                       ELSE mailed
         IN  IF \E other \in (DOMAIN us) \ {user_id} : us[other].email = worded.email
             THEN [users |-> us, code |-> 500, msg |-> "Failed to update user"]
             ELSE [users |-> [us EXCEPT ![user_id] = worded], code |-> 200,
                   msg |-> "User updated successfully"]

\* the credentials of the seeded accounts
SeedLogins ==
    {[username |-> "admin", password |-> "admin123"],
     [username |-> "doctor", password |-> "doctor123"],
     [username |-> "patient", password |-> "patient123"]}

\* the bodies sent to PUT /api/admin/users/<user_id>
UserPatches ==
    {[is_active |-> FALSE], [is_active |-> TRUE], [role |-> "admin"], [role |-> "patient"],
     [role |-> "nurse"]}

\* POST /api/auth/login of a seeded account, before the clock has advanced; the
\* client adds the token to those it holds
LoginSeed ==
    \E data \in SeedLogins :
        LET result == login(users, data, now)
        IN  /\ now = 0
            /\ Cardinality(token \cup result.issued) <= MaxTokens
            /\ users' = result.users
            /\ token' = token \cup result.issued
            /\ aLast' = result.reply
            /\ UNCHANGED <<riskVars, patientVars, appts, today, now, securityLogs, reset_tokens, threads, medical_history>>

\* a gated route refusing the request
Refused(op, header, inclusive, req, checked) ==
    /\ aLast' = GateReply(op, header, inclusive, {}, req, checked.code, checked.msg)
    /\ UNCHANGED <<users, patients>>

\* POST /api/patients/register behind its gates
GatedRegisterPatient ==
    \E header \in Headers(token) : \E inclusive \in Comparisons(header, now) :
        LET checked == gate(header, RequiredRoles["register_patient"], users, now, inclusive)
            data == PatientForm
        IN  /\ IF checked.code # 200
               THEN Refused("register_patient", header, inclusive, data, checked)
               ELSE LET caller == CHOOSE id \in checked.user : TRUE
                        sanitized_data ==
                            DictUpdate(prepare_patient_payload(data),
                                [created_by |-> caller,
                                 assigned_doctor_id |->
                                     IF users[caller].role = "doctor" THEN caller ELSE None])
                    IN  /\ Cardinality(DOMAIN patients) < MaxPatients
                        /\ patients' = create_patient(patients, sanitized_data)
                        /\ users' = users
                        /\ aLast' = GateReply("register_patient", header, inclusive, {caller},
                                              data, 201, "Patient registered successfully")
            /\ UNCHANGED <<riskVars, pLast, appts, today, now, authVars, threads, medical_history>>

\* PUT /api/patients/<patient_id> behind its gates
GatedUpdatePatient ==
    \E header \in Headers(token), patient_id \in PatientIds : \E inclusive \in Comparisons(header, now) :
        LET checked == gate(header, RequiredRoles["update_patient"], users, now, inclusive)
            data == [age |-> 61]
        IN  /\ IF checked.code # 200
               THEN Refused("update_patient", header, inclusive, data, checked)
               ELSE /\ users' = users
                    /\ IF patient_id \notin DOMAIN patients
                       THEN /\ patients' = patients
                            /\ aLast' = GateReply("update_patient", header, inclusive,
                                            checked.user, data, 404, "Patient not found")
                       ELSE /\ patients' = [patients EXCEPT ![patient_id] =
                                    UpdatedRow(patient_id, patients[patient_id],
                                               prepare_patient_payload(data))]
                            /\ aLast' = GateReply("update_patient", header, inclusive,
                                            checked.user, data, 200,
                                            "Patient updated successfully")
            /\ UNCHANGED <<riskVars, pLast, appts, today, now, authVars, threads, medical_history>>

\* DELETE /api/patients/<patient_id> behind its gates
GatedDeletePatient ==
    \E header \in Headers(token), patient_id \in PatientIds : \E inclusive \in Comparisons(header, now) :
        LET checked == gate(header, RequiredRoles["delete_patient"], users, now, inclusive)
        IN  /\ IF checked.code # 200
               THEN Refused("delete_patient", header, inclusive, EmptyDict, checked)
               ELSE /\ users' = users
                    /\ IF patient_id \notin DOMAIN patients
                       THEN /\ patients' = patients
                            /\ aLast' = GateReply("delete_patient", header, inclusive,
                                            checked.user, EmptyDict, 404, "Patient not found")
                       ELSE /\ patients' = Restrict(patients, (DOMAIN patients) \ {patient_id})
                            /\ aLast' = GateReply("delete_patient", header, inclusive,
                                            checked.user, EmptyDict, 200,
                                            "Patient deleted successfully")
            /\ UNCHANGED <<riskVars, pLast, appts, today, now, authVars, threads, medical_history>>

\* POST /api/admin/users behind its gates
GatedCreateUser ==
    \E header \in Headers(token) : \E inclusive \in Comparisons(header, now) :
        LET checked == gate(header, RequiredRoles["create_user"], users, now, inclusive)
            data == GoodAccount
            result == admin_create_user(users, data)
        IN  /\ IF checked.code # 200
               THEN Refused("create_user", header, inclusive, data, checked)
               ELSE /\ \A id \in DOMAIN result.users : id <= MaxUsers
                    /\ users' = result.users
                    /\ patients' = patients
                    /\ aLast' = GateReply("create_user", header, inclusive, checked.user, data,
                                          result.reply.code, result.reply.msg)
            /\ UNCHANGED <<riskVars, pLast, appts, today, now, authVars, threads, medical_history>>

\* PUT /api/admin/users/<user_id> behind its gates, for the seeded patient account
GatedUpdateUser ==
    \E header \in Headers(token), user_id \in {3}, data \in UserPatches :
      \E inclusive \in Comparisons(header, now) :
        LET checked == gate(header, RequiredRoles["update_user"], users, now, inclusive)
            result == admin_update_user(users, user_id, data)
        IN  /\ IF checked.code # 200
               THEN Refused("update_user", header, inclusive, data, checked)
               ELSE /\ users' = result.users
                    /\ patients' = patients
                    /\ aLast' = GateReply("update_user", header, inclusive, checked.user, data,
                                          result.code, result.msg)
            /\ UNCHANGED <<riskVars, pLast, appts, today, now, authVars, threads, medical_history>>

NextGates ==
    \/ LoginSeed
    \/ GatedRegisterPatient
    \/ GatedUpdatePatient
    \/ GatedDeletePatient
    \/ GatedCreateUser
    \/ GatedUpdateUser
    \/ Advance

SpecGates == InitAuth /\ [][NextGates]_vars
(***************************************************************************)
(* Role gates before any effect                                            *)
(***************************************************************************)
\* the step is a request to a gated route
GatedStep == now' = now /\ aLast' # aLast /\ aLast'.op \in GatedOps

\* the header is not of the form "Bearer <token>" for a token of this server
MalformedHeader(header) == header.kind # "jwt" \/ header.scheme # "Bearer"

\* the header carries an unexpired token of a stored identity
Authenticated(header, us, t) ==
    /\ ~MalformedHeader(header)
    /\ \A tk \in header.jwt : tk.exp > t /\ find_by_id(us, tk.user_id) # {}

C21_GateStep ==
    GatedStep =>
        LET header == aLast'.header
        IN  /\ MalformedHeader(header) =>
                    /\ aLast'.code = 401
                    /\ users' = users
                    /\ patients' = patients
            /\ (/\ Authenticated(header, users, now)
                /\ \E tk \in header.jwt :
                        users[tk.user_id].role \notin RequiredRoles[aLast'.op]) =>
                    /\ aLast'.code = 403
                    /\ users' = users
                    /\ patients' = patients

\* C21: on the gated routes (POST /patients/register, PUT and DELETE
\* /patients/<id>, the /admin routes) an authenticated caller whose stored role is
\* outside the route's gate is answered 403, a request without an Authorization
\* header or with a malformed one is answered 401, and in both cases the patients
\* and the users are left as they were
C21_GatesBeforeEffects == [][C21_GateStep]_vars
(***************************************************************************)
(* The security log and its queries: GET /api/security/logs/stats and      *)
(* /logs/failed-logins.  Rows reach the table through SecurityLog(...), as *)
(* scripts/init_security_logs.py inserts them.                             *)
(***************************************************************************)
MaxLogs == 5
MaxStreak == 5

\* hours = int(request.args.get('hours', 24)), in seconds
DefaultWindow == 24 * 3600

\* limit = min(int(request.args.get('limit', 100)), 1000)
DefaultLimit == 100

\* the address the requests of the model come from
SourceAddress == "203.0.113.42"

\* a row of security_logs
SecurityLogRow(event_type, ip_address, t) ==
    [event_type |-> event_type, ip_address |-> ip_address, created_at |-> t]

\* SecurityLog.query.filter(SecurityLog.created_at >= time_threshold).all()
LogsInWindow(logs, t, window) == SelectSeq(logs, LAMBDA log : log.created_at >= t - window)

\* the number of rows of a sequence that satisfy a test
CountRows(logs, Test(_)) == Len(SelectSeq(logs, Test))

\* the addresses of the rows
AddressesOf(logs) == UNION {logs[i].ip_address : i \in 1..Len(logs)}

\* get_security_stats: failed_logins and suspicious_ips of its answer
get_security_stats(all_logs, t, window) ==
    LET logs == LogsInWindow(all_logs, t, window)
        failed_login_ips(ip) ==
            CountRows(logs, LAMBDA log : log.event_type = "failed_login" /\ log.ip_address = {ip})
    IN  [failed_logins |-> CountRows(logs, LAMBDA log : log.event_type = "failed_login"),
         suspicious_ips |-> {ip \in AddressesOf(logs) : failed_login_ips(ip) >= 5}]

\* get_failed_logins: total and suspicious_ips of its answer; the rows are the
\* limit most recent failed_login rows of the window
get_failed_logins(all_logs, t, window, limit) ==
    LET found == SelectSeq(LogsInWindow(all_logs, t, window),
                           LAMBDA log : log.event_type = "failed_login")
        logs == IF Len(found) <= limit THEN found
                ELSE SubSeq(found, Len(found) - limit + 1, Len(found))
        ip_attempts(ip) == CountRows(logs, LAMBDA log : log.ip_address = {ip})
    IN  [total |-> Len(logs),
         suspicious_ips |-> {ip \in AddressesOf(logs) : ip_attempts(ip) >= 5}]

\* the logins sent from the source address
StreakLogins ==
    {[username |-> "patient", password |-> "wrong"],
     [username |-> "ghost", password |-> "wrong"]}

\* the run of logins with a registered username and a wrong password that the
\* answer ends, all from one address and at one reading of the clock
Streak(last, reply, us, t) ==
    IF reply.code = 401 /\ reply.msg = InvalidCredentialsMessage(TRUE)
       /\ find_by_username(us, reply.username) # {}
    THEN IF last.op = "login" /\ "streak" \in DOMAIN last /\ last.at = t
         THEN last.streak + 1 ELSE 1
    ELSE 0

\* POST /api/auth/login from the source address: login hands its events to the
\* logger and writes no row of security_logs
LoginFrom ==
    \E data \in StreakLogins :
        LET result == login(users, data, now)
            streak == Streak(aLast, result.reply, users, now)
        IN  /\ streak <= MaxStreak
            /\ users' = result.users
            /\ aLast' = DictUpdate(result.reply,
                           [ip_address |-> SourceAddress, streak |-> streak, at |-> now])
            /\ UNCHANGED <<riskVars, patientVars, appts, today, now, authVars, threads, medical_history>>

\* SecurityLog(...) added and committed
InsertSecurityLog ==
    \E event_type \in {"failed_login", "login"} :
        /\ Len(securityLogs) < MaxLogs
        /\ securityLogs' = Append(securityLogs,
                                  SecurityLogRow(event_type, {SourceAddress}, now))
        /\ aLast' = [op |-> "insert_log", event_type |-> event_type]
        /\ UNCHANGED <<riskVars, patientVars, users, appts, today, now, token, reset_tokens, threads, medical_history>>

\* GET /api/security/logs/stats
GetSecurityStats ==
    /\ aLast' = DictUpdate([op |-> "stats"],
                           get_security_stats(securityLogs, now, DefaultWindow))
    /\ UNCHANGED <<riskVars, patientVars, users, appts, today, now, authVars, threads, medical_history>>

\* GET /api/security/logs/failed-logins
GetFailedLogins ==
    /\ aLast' = DictUpdate([op |-> "failed_logins"],
                    get_failed_logins(securityLogs, now, DefaultWindow, DefaultLimit))
    /\ UNCHANGED <<riskVars, patientVars, users, appts, today, now, authVars, threads, medical_history>>

NextSecurity ==
    \/ LoginFrom
    \/ InsertSecurityLog
    \/ GetSecurityStats
    \/ GetFailedLogins
    \/ Advance

SpecSecurity == InitAuth /\ [][NextSecurity]_vars

\* C22: once five logins in a row with a registered username and a wrong password
\* have come from one address within the window, that address is in the
\* suspicious_ips of the security stats query and of the failed-logins query
C22_FiveFailuresFlagged ==
    (aLast.op = "login" /\ "streak" \in DOMAIN aLast /\ aLast.at = now /\ aLast.streak >= 5) =>
        /\ aLast.ip_address \in get_security_stats(securityLogs, now, DefaultWindow).suspicious_ips
        /\ aLast.ip_address \in
                get_failed_logins(securityLogs, now, DefaultWindow, DefaultLimit).suspicious_ips
(***************************************************************************)
(* The roles of the stored identities                                      *)
(***************************************************************************)
\* PUT /api/admin/users/<user_id>, sent by an administrator, for the seeded
\* patient account and the accounts created since
UpdateUserRoute ==
    \E user_id \in 3..MaxUsers, data \in UserPatches :
        LET result == admin_update_user(users, user_id, data)
        IN  /\ \E admin \in DOMAIN users : users[admin].role = "admin"
            /\ users' = result.users
            /\ aLast' = AccountReply("update_user", data, result.code, result.msg, {user_id})
            /\ UNCHANGED <<riskVars, patientVars, appts, today, now, authVars, threads, medical_history>>

NextRoles == Register \/ CreateUser \/ SelfRegister \/ UpdateUserRoute

SpecRoles == InitAuth /\ [][NextRoles]_vars

\* C23: after any sequence of POST /auth/register, POST /admin/users, PUT
\* /admin/users/<id> and patient self-registrations, the role of every stored
\* identity is admin, doctor or patient
C23_RolesWithinSet ==
    \A id \in DOMAIN users : users[id].role \in {"admin", "doctor", "patient"}
(***************************************************************************)
(* update and delete of a patient that is not stored                       *)
(***************************************************************************)
C24_StoreStep ==
    pLast'.op \in {"update", "delete"} =>
        LET id == pLast'.id
        IN  /\ id \notin DOMAIN patients =>
                    /\ pLast'.ok = FALSE
                    /\ patients' = patients
            /\ (pLast'.op = "delete" /\ id \in DOMAIN patients) =>
                    /\ pLast'.ok = TRUE
                    /\ id \notin DOMAIN patients'
                    /\ DOMAIN patients' = (DOMAIN patients) \ {id}
                    /\ \A other \in DOMAIN patients' : patients'[other] = patients[other]

\* C24: update and delete of an id that names no stored patient return false and
\* leave every stored record as it was; delete of a stored patient returns true
\* and removes that record and no other, so that the id names no patient
\* afterwards and a second delete of it returns false
C24_AbsentPatientUntouched == [][C24_StoreStep]_vars

\* a delete of an id that names no patient has returned false while another
\* patient is stored
C24_Witness ==
    /\ pLast.op = "delete"
    /\ pLast.ok = FALSE
    /\ pLast.id \notin DOMAIN patients
    /\ DOMAIN patients # {}
(***************************************************************************)
(* The classifier is a monotonic step function                             *)
(***************************************************************************)
\* low < medium < high
TierRank(level) == CASE level = "low" -> 0 [] level = "medium" -> 1 [] level = "high" -> 2

\* the tier computed for the score of the state lies between the tiers of the
\* scores below it and those of the scores above it, and is the tier of that score
MonotoneAt(computed, get_risk_level(_)) ==
    \A s \in Scores :
        /\ s < score => TierRank(get_risk_level(s)) <= TierRank(computed)
        /\ s > score => TierRank(computed) <= TierRank(get_risk_level(s))
        /\ s = score => get_risk_level(s) = computed

\* C25: for all scores s1 < s2 in 0..100 the tier of s1 is never higher than the
\* tier of s2, and equal scores receive the same tier, in each copy of
\* get_risk_level and under each configured pair of thresholds
C25_ClassifyMonotone ==
    levelOut.done =>
        /\ MonotoneAt(levelOut.service, Service_get_risk_level)
        /\ MonotoneAt(levelOut.record, LAMBDA s : Record_get_risk_level(s, cfg))
        /\ MonotoneAt(levelOut.mongo, Mongo_get_risk_level)

\* the score at the step from medium to high has been classified
C25_Witness ==
    /\ levelOut.done
    /\ score = 50
    /\ levelOut.service = "high"
    /\ Service_get_risk_level(score - 1) = "medium"
(***************************************************************************)
(* Two update_patient calls on one row, each in its own session.  The      *)
(* session reads the row once, works on its own copy, and its commit       *)
(* writes the columns whose value it changed.                              *)
(***************************************************************************)
ThreadIds == {"A", "B"}

\* the one-field patches of the risk-affecting fields
RiskPatches ==
    {[age |-> 61], [age |-> 85], [hypertension |-> 1], [heart_disease |-> 1],
     [avg_glucose_level |-> 150], [bmi |-> 31], [smoking_status |-> "Smokes"]}

\* an update_patient call that has not started
UpdateCall(patient_id, update_data) ==
    [pc |-> "start", patient_id |-> patient_id, update_data |-> update_data,
     loaded |-> {}, patient |-> {}, result |-> {}]

\* one stored patient and two calls that patch different fields of it
InitConcurrentUpdate ==
    /\ pd = EmptyDict
    /\ riskOut = NoRisk
    /\ cfg = DefaultConfig
    /\ score = 0
    /\ levelOut = NoLevel
    /\ patients = [id \in {1} |-> NewPatientRow(BasePatient)]
    /\ pLast = NoCall
    /\ users = InitialUsers
    /\ appts = EmptyDict
    /\ today = 1
    /\ now = 0
    /\ aLast = NoCall
    /\ token = {}
    /\ securityLogs = <<>>
    /\ reset_tokens = EmptyDict
    /\ medical_history = EmptyDict
    /\ \E a \in RiskPatches, b \in RiskPatches :
            /\ DOMAIN a # DOMAIN b
            /\ threads = [th \in ThreadIds |->
                            IF th = "A" THEN UpdateCall(1, a) ELSE UpdateCall(1, b)]

\* patient = PatientSQLite.query.get(patient_id)
UpdateRead(th) ==
    LET call == threads[th]
    IN  /\ call.pc = "start"
        /\ threads' = [threads EXCEPT ![th] =
                IF patient_found(patients, call.patient_id)
                THEN [call EXCEPT !.pc = "loaded", !.loaded = {patients[call.patient_id]}]
                ELSE [call EXCEPT !.pc = "done", !.result = {FALSE}]]
        /\ UNCHANGED <<riskVars, patientVars, apptVars, authVars, medical_history>>

\* the setattr loop and the recomputation of stroke_risk and risk_level, on the
\* session's copy of the row
UpdateRecompute(th) ==
    LET call == threads[th]
    IN  /\ call.pc = "loaded"
        /\ threads' = [threads EXCEPT ![th] =
                [call EXCEPT !.pc = "dirty",
                             !.patient = {UpdatedRow(call.patient_id, row, call.update_data) :
                                            row \in call.loaded}]]
        /\ UNCHANGED <<riskVars, patientVars, apptVars, authVars, medical_history>>

\* the row after the UPDATE a session's commit issues: the columns the session
\* changed take its values, the others keep the stored ones
CommittedRow(stored, loaded, patient) ==
    [k \in DOMAIN stored |-> IF patient[k] # loaded[k] THEN patient[k] ELSE stored[k]]

\* db.session.commit(); return True
UpdateCommit(th) ==
    LET call == threads[th]
    IN  /\ call.pc = "dirty"
        /\ \E loaded \in call.loaded, patient \in call.patient :
                patients' = [patients EXCEPT ![call.patient_id] =
                                CommittedRow(@, loaded, patient)]
        /\ threads' = [threads EXCEPT ![th] = [call EXCEPT !.pc = "done", !.result = {TRUE}]]
        /\ UNCHANGED <<riskVars, pLast, apptVars, authVars, medical_history>>

NextConcurrentUpdate ==
    \E th \in ThreadIds : UpdateRead(th) \/ UpdateRecompute(th) \/ UpdateCommit(th)

SpecConcurrentUpdate == InitConcurrentUpdate /\ [][NextConcurrentUpdate]_vars

\* C26: when two concurrent updates of one patient, each patching a different
\* risk-affecting field, have both committed, the stored stroke_risk is the score
\* of the stored fields and the stored risk_level is the level of that score
C26_ConcurrentUpdatesConsistent ==
    (\A th \in ThreadIds : threads[th].pc = "done" /\ threads[th].result = {TRUE}) =>
        \A id \in DOMAIN patients :
            /\ patients[id].stroke_risk = Service_calculate_stroke_risk(to_dict(id, patients[id]))
            /\ patients[id].risk_level = Service_get_risk_level(patients[id].stroke_risk)
(***************************************************************************)
(* Two reset_password requests that carry the same token, each served by   *)
(* its own thread; reset_tokens is the dictionary of the module, shared by *)
(* the threads.                                                            *)
(***************************************************************************)
MinResetPasswordLength == 6

ResetPasswords == {"Fresh-pw-1", "Fresh-pw-2", "short"}

\* a reset_password request that has not started
ResetCall(data) ==
    [pc |-> "start", data |-> data, email |-> {}, code |-> {}]

\* a token issued to the patient's address, and two requests that carry it
InitConcurrentReset ==
    /\ pd = EmptyDict
    /\ riskOut = NoRisk
    /\ cfg = DefaultConfig
    /\ score = 0
    /\ levelOut = NoLevel
    /\ patients = EmptyDict
    /\ pLast = NoCall
    /\ users = InitialUsers
    /\ appts = EmptyDict
    /\ today = 1
    /\ now = 0
    /\ aLast = NoCall
    /\ token = {}
    /\ securityLogs = <<>>
    /\ reset_tokens = generate_reset_token(EmptyDict, "patient@strokecare.com", 0, "tokA")
    /\ medical_history = EmptyDict
    /\ \E a \in ResetPasswords, b \in ResetPasswords :
            threads = [th \in ThreadIds |->
                        ResetCall([token |-> "tokA", password |-> IF th = "A" THEN a ELSE b])]

\* the length check and email = verify_reset_token(token)
ResetVerify(th) ==
    LET call == threads[th]
        verified == verify_reset_token(reset_tokens, call.data.token, now)
    IN  /\ call.pc = "start"
        /\ IF Len(call.data.password) < MinResetPasswordLength
           THEN /\ threads' = [threads EXCEPT ![th] = [call EXCEPT !.pc = "done", !.code = {400}]]
                /\ UNCHANGED reset_tokens
           ELSE /\ reset_tokens' = verified.tokens
                /\ threads' = [threads EXCEPT ![th] =
                        IF verified.email = {}
                        THEN [call EXCEPT !.pc = "done", !.code = {400}]
                        ELSE [call EXCEPT !.pc = "verified", !.email = verified.email]]
        /\ UNCHANGED <<riskVars, patientVars, apptVars, token, securityLogs, medical_history>>

\* user = User.query.filter_by(email=email).first(); user.set_password(new_password);
\* db.session.commit()
ResetCommit(th) ==
    LET call == threads[th]
        found == UNION {find_by_email(users, email) : email \in call.email}
    IN  /\ call.pc = "verified"
        /\ IF found = {}
           THEN /\ threads' = [threads EXCEPT ![th] = [call EXCEPT !.pc = "done", !.code = {404}]]
                /\ UNCHANGED users
           ELSE /\ users' = [id \in DOMAIN users |->
                                IF id \in found
                                THEN [users[id] EXCEPT !.password_hash = set_password(call.data.password)]
                                ELSE users[id]]
                /\ threads' = [threads EXCEPT ![th] = [call EXCEPT !.pc = "committed"]]
        /\ UNCHANGED <<riskVars, patientVars, appts, today, now, aLast, authVars, medical_history>>

\* if token in reset_tokens: del reset_tokens[token]; return 200
ResetRemove(th) ==
    LET call == threads[th]
    IN  /\ call.pc = "committed"
        /\ reset_tokens' = Restrict(reset_tokens, (DOMAIN reset_tokens) \ {call.data.token})
        /\ threads' = [threads EXCEPT ![th] = [call EXCEPT !.pc = "done", !.code = {200}]]
        /\ UNCHANGED <<riskVars, patientVars, apptVars, token, securityLogs, medical_history>>

NextConcurrentReset ==
    \/ \E th \in ThreadIds : ResetVerify(th) \/ ResetCommit(th) \/ ResetRemove(th)
    \/ Advance

SpecConcurrentReset == InitConcurrentReset /\ [][NextConcurrentReset]_vars

\* C27: of the reset_password requests that carry one token, in every order and
\* interleaving of their steps, at most one is answered 200
C27_ResetTokenSingleUse ==
    Cardinality({th \in ThreadIds : threads[th].code = {200}}) <= 1
(***************************************************************************)
(* Two POST /auth/register requests, each served by its own thread: the    *)
(* existence checks of a request and the INSERT of its create_user are     *)
(* separate statements on the shared users table.                          *)
(***************************************************************************)
ConcurrentRequests ==
    AccountRequests
    \cup {[username |-> "newuser2", email |-> e, password |-> "Newpass123",
           first_name |-> "New", last_name |-> "User", role |-> "patient"] :
            e \in {"new@strokecare.com", "patient@strokecare.com"}}

\* a register request that has not started
RegisterCall(data) ==
    [pc |-> "start", data |-> data, passed |-> FALSE, reply |-> {}]

InitConcurrentRegister ==
    /\ pd = EmptyDict
    /\ riskOut = NoRisk
    /\ cfg = DefaultConfig
    /\ score = 0
    /\ levelOut = NoLevel
    /\ patients = EmptyDict
    /\ pLast = NoCall
    /\ users = InitialUsers
    /\ appts = EmptyDict
    /\ today = 1
    /\ now = 0
    /\ aLast = NoCall
    /\ token = {}
    /\ securityLogs = <<>>
    /\ reset_tokens = EmptyDict
    /\ medical_history = EmptyDict
    /\ \E a \in ConcurrentRequests, b \in ConcurrentRequests :
            threads = [th \in ThreadIds |-> RegisterCall(IF th = "A" THEN a ELSE b)]

\* the validation of the request and the find_by_username and find_by_email
\* checks, against the table as it is when they run
RegisterCheck(th) ==
    LET call == threads[th]
        result == register(users, call.data)
    IN  /\ call.pc = "start"
        /\ threads' = [threads EXCEPT ![th] =
                IF result.reply.code \in {400, 409}
                THEN [call EXCEPT !.pc = "done", !.reply = {result.reply}]
                ELSE [call EXCEPT !.pc = "checked", !.passed = TRUE]]
        /\ UNCHANGED <<riskVars, patientVars, apptVars, authVars, medical_history>>

\* the reply of register to what create_user returned: None after the rollback of
\* an INSERT the unique constraints refused, the new user otherwise
created_reply(data, before, created) ==
    IF created = before
    THEN AccountReply("register", data, 500, "Failed to create user", {})
    ELSE AccountReply("register", data, 201, "User registered successfully",
                      {NewUserId(before)})

\* new_user = UserOperations.create_user(...), against the table as it is when
\* the INSERT runs
RegisterCreate(th) ==
    LET call == threads[th]
        data == call.data
        created == create_user(users, sanitize_input(data["username"]),
                               sanitize_input(data["email"]), data["password"],
                               sanitize_input(data["role"]))
    IN  /\ call.pc = "checked"
        /\ users' = created
        /\ threads' = [threads EXCEPT ![th] =
                [call EXCEPT !.pc = "done", !.reply = {created_reply(data, users, created)}]]
        /\ UNCHANGED <<riskVars, patientVars, appts, today, now, aLast, authVars, medical_history>>

NextConcurrentRegister ==
    \E th \in ThreadIds : RegisterCheck(th) \/ RegisterCreate(th)

SpecConcurrentRegister == InitConcurrentRegister /\ [][NextConcurrentRegister]_vars

\* the two requests name the same username or the same email
SameIdentity ==
    \/ sanitize_input(threads["A"].data["username"]) = sanitize_input(threads["B"].data["username"])
    \/ sanitize_input(threads["A"].data["email"]) = sanitize_input(threads["B"].data["email"])

\* both requests passed their existence checks and have been answered
BothPassedAndAnswered ==
    \A th \in ThreadIds : threads[th].passed /\ threads[th].pc = "done"

\* C28: when two concurrent register requests with the same username or email
\* have both passed the existence checks, exactly one identity is persisted, one
\* request is answered 201 and the other 409
C28_ConcurrentRegisterConflict ==
    (BothPassedAndAnswered /\ SameIdentity) =>
        /\ Cardinality(DOMAIN users) = Cardinality(DOMAIN InitialUsers) + 1
        /\ {reply.code : reply \in UNION {threads[th].reply : th \in ThreadIds}} = {201, 409}
(***************************************************************************)
(* What the token check depends on                                         *)
(***************************************************************************)
\* a gated route answering a header that carries a token of this server
TokenStep == GatedStep /\ aLast'.header.kind = "jwt"

\* such a request is turned away with 401 exactly when its token has expired or
\* names no stored identity, whatever is_active says, and otherwise with 403
\* exactly when the role stored for the identity is outside the route's gate
C29_TokenStep ==
    TokenStep =>
        \A tk \in aLast'.header.jwt :
            /\ (tk.exp < now \/ find_by_id(users, tk.user_id) = {}) => aLast'.code = 401
            /\ (tk.exp > now /\ find_by_id(users, tk.user_id) # {}) =>
                    /\ aLast'.code # 401
                    /\ aLast'.code = 403 <=>
                            users[tk.user_id].role \notin RequiredRoles[aLast'.op]

\* a login with the right password of a deactivated account
DeactivatedLoginStep ==
    /\ now' = now
    /\ aLast' # aLast
    /\ aLast'.op = "login"
    /\ \E data \in SeedLogins, id \in DOMAIN users :
            /\ aLast'.username = data.username
            /\ users[id].username = data.username
            /\ check_password(users[id], data.password)
            /\ ~users[id].is_active

\* such a login is refused and issues no token
C29_LoginStep ==
    DeactivatedLoginStep => aLast'.code = 401 /\ token' = token /\ users' = users

\* C29: token_required depends only on the token's expiry and the existence of
\* its identity, and role_required on the role currently stored: a token issued
\* before its identity was deactivated is still accepted afterwards, and the
\* deactivation only refuses new logins
C29_TokenOutlivesDeactivation == [][C29_TokenStep /\ C29_LoginStep]_vars

\* a gated route has just served the token of a deactivated identity
C29_Witness ==
    /\ aLast # NoCall
    /\ aLast.op \in GatedOps \ {"update_user"}
    /\ aLast.code \in {200, 201}
    /\ \E id \in aLast.caller : ~users[id].is_active
(***************************************************************************)
(* The medical_history table next to the patients table                    *)
(***************************************************************************)
MaxRecords == 2

\* the record_data passed to add_medical_record
RecordInputs ==
    {[record_type |-> "diagnosis", description |-> "Hypertension stage 1"],
     [record_type |-> "prescription", description |-> "Amlodipine 5mg", doctor_id |-> 2]}

\* MedicalHistorySQLite(patient_id=..., record_type=..., description=..., doctor_id=...)
MedicalHistoryRow(patient_id, record_data) ==
    [patient_id |-> patient_id,
     record_type |-> record_data["record_type"],
     description |-> record_data["description"],
     doctor_id |-> Get(record_data, "doctor_id", None)]

\* the id the table gives the next record
NewRecordId(history) ==
    IF DOMAIN history = {} THEN 1
    ELSE (CHOOSE m \in DOMAIN history : \A i \in DOMAIN history : i <= m) + 1

\* whether the connection enforces ForeignKey('patients.id'): the connect
\* listener issues no PRAGMA foreign_keys, so this is the default of the SQLite
\* library the build links
ForeignKeyEnforcement == BOOLEAN

\* the records of history that name patient_id
records_of(history, patient_id) ==
    {r \in DOMAIN history : history[r].patient_id = patient_id}

\* _add_medical_record_sqlite: the table it leaves and the id it returns, none
\* when the INSERT raised
add_medical_record(history, ps, patient_id, record_data, foreign_keys) ==
    IF foreign_keys /\ patient_id \notin DOMAIN ps
    THEN [medical_history |-> history, record |-> {}]
    ELSE [medical_history |->
              DictUpdate(history, [r \in {NewRecordId(history)} |->
                                      MedicalHistoryRow(patient_id, record_data)]),
          record |-> {NewRecordId(history)}]

AddMedicalRecord ==
    \E patient_id \in PatientIds, record_data \in RecordInputs,
       foreign_keys \in ForeignKeyEnforcement :
        LET result == add_medical_record(medical_history, patients, patient_id, record_data,
                                         foreign_keys)
        IN  /\ Cardinality(DOMAIN medical_history) < MaxRecords
            /\ medical_history' = result.medical_history
            /\ pLast' = [op |-> "add_medical_record", id |-> patient_id, arg |-> record_data,
                         ok |-> result.record # {}, record |-> result.record]
            /\ UNCHANGED <<authVars, riskVars, apptVars, patients, threads>>

\* _delete_patient_sqlite next to the medical_history table: the DELETE names the
\* patients row only, and raises when the foreign key is enforced and a record
\* still names the row
DeletePatientSqlite ==
    \E patient_id \in PatientIds, foreign_keys \in ForeignKeyEnforcement :
        /\ IF ~patient_found(patients, patient_id)
           THEN /\ patients' = patients
                /\ pLast' = [op |-> "delete", id |-> patient_id, arg |-> EmptyDict, ok |-> FALSE]
           ELSE IF foreign_keys /\ records_of(medical_history, patient_id) # {}
           THEN /\ patients' = patients
                /\ pLast' = [op |-> "delete", id |-> patient_id, arg |-> EmptyDict, ok |-> FALSE,
                             raised |-> "IntegrityError"]
           ELSE /\ patients' = [i \in (DOMAIN patients) \ {patient_id} |-> patients[i]]
                /\ pLast' = [op |-> "delete", id |-> patient_id, arg |-> EmptyDict, ok |-> TRUE]
        /\ UNCHANGED <<authVars, riskVars, apptVars, threads, medical_history>>

NextHistory == CreatePatient \/ AddMedicalRecord \/ DeletePatientSqlite

SpecHistory == InitPatients /\ [][NextHistory]_vars

\* C30: after any sequence of patient creations, patient deletions and
\* add_medical_history calls, every medical-history record names a patient that
\* is stored
C30_HistoryOwned ==
    \A r \in DOMAIN medical_history : medical_history[r].patient_id \in DOMAIN patients

====
